---- MODULE Spec2Model ----
(***************************************************************************)
(* Risk evaluation engine of unkn0wn-root/risk-system:                     *)
(*   cmd/risk-engine/services/risk_engine.go   (RiskEngine)                *)
(*   cmd/risk-engine/handlers/risk.go          (RiskHandler.CheckRisk)     *)
(*   cmd/risk-engine/handlers/admin.go         (RiskAdminHandler)          *)
(*   cmd/risk-engine/repository/risk_repository.go (GetRulesByCategory)    *)
(*   cmd/risk-engine/services/risk_analytics.go (StoreRiskResult)          *)
(*                                                                         *)
(* Go strings that the engine inspects character by character (emails,     *)
(* names, phones, rule values) are sequences of one-character strings.     *)
(* Strings that are only compared or concatenated (rule types, rule names, *)
(* flags, risk levels) are TLA+ strings.  Rule.Confidence is a             *)
(* decimal(3,2) column: it is kept in hundredths (90 is 0.90).             *)
(***************************************************************************)
EXTENDS Integers, Sequences, FiniteSets, TLC

(***************************************************************************)
(* Bounds of the model                                                     *)
(***************************************************************************)
\* number of gRPC CheckRisk calls, which may overlap
NumCallers == 2
\* minutes of wall clock after engine construction
MaxElapsed == 5
\* InvalidateCache calls / rule mutations of the admin surface
MaxAdminOps == 1
\* largest total score (and, negated, smallest) that is classified
MaxTotal == 160
\* longest slice the caller of GetCachedRules builds
MaxSnapshotLen == 2
\* longest email address given to a DOMAIN_BLACKLIST rule
MaxEmailLen == 4
\* longest phone number given to a PREFIX_BLACKLIST rule, the example apart
MaxPhoneLen == 3
\* Login / UpdateUser calls of the user service
NumSessions == 2

(***************************************************************************)
(* Program constants                                                       *)
(***************************************************************************)
\* cacheTTL: 5 * time.Minute, in minutes
CacheTTL == 5
\* time.Time{}: the zero time, to which InvalidateCache resets cacheTime
ZeroTime == 0
\* wall clock at construction; any value with StartTime - ZeroTime >= CacheTTL
\* (the zero time is year 1, so time.Since(time.Time{}) is always >= cacheTTL)
StartTime == ZeroTime + CacheTTL

Categories == <<"EMAIL", "NAME", "PHONE">>
CategorySet == {"EMAIL", "NAME", "PHONE"}

(***************************************************************************)
(* package strings, on sequences of characters                             *)
(***************************************************************************)
Uppers == <<"A","B","C","D","E","F","G","H","I","J","K","L","M",
            "N","O","P","Q","R","S","T","U","V","W","X","Y","Z">>
Lowers == <<"a","b","c","d","e","f","g","h","i","j","k","l","m",
            "n","o","p","q","r","s","t","u","v","w","x","y","z">>

ToLowerChar(c) ==
    IF \E i \in DOMAIN Uppers : Uppers[i] = c
    THEN Lowers[CHOOSE i \in DOMAIN Uppers : Uppers[i] = c]
    ELSE c

\* strings.ToLower
ToLower(s) == [i \in 1..Len(s) |-> ToLowerChar(s[i])]

IsSpace(c) == c \in {" ", "\t", "\n", "\r"}

RECURSIVE TrimLeft(_)
TrimLeft(s) == IF s # <<>> /\ IsSpace(Head(s)) THEN TrimLeft(Tail(s)) ELSE s

RECURSIVE TrimRight(_)
TrimRight(s) ==
    IF s # <<>> /\ IsSpace(s[Len(s)]) THEN TrimRight(SubSeq(s, 1, Len(s) - 1)) ELSE s

\* strings.TrimSpace
TrimSpace(s) == TrimRight(TrimLeft(s))

\* strings.EqualFold (simple case folding; the model's alphabet is ASCII)
EqualFold(a, b) == ToLower(a) = ToLower(b)

\* strings.Contains
Contains(s, substr) ==
    \E i \in 0..(Len(s) - Len(substr)) : SubSeq(s, i + 1, i + Len(substr)) = substr

\* strings.HasPrefix
HasPrefix(s, prefix) ==
    Len(prefix) <= Len(s) /\ SubSeq(s, 1, Len(prefix)) = prefix

\* strings.ReplaceAll(s, old, "") for a one-character old
RemoveAll(s, old) == SelectSeq(s, LAMBDA c : c # old)

\* strings.Split(s, sep) for a one-character sep: always at least one part
RECURSIVE SplitFrom(_, _, _)
SplitFrom(s, sep, cur) ==
    IF s = <<>> THEN <<cur>>
    ELSE IF Head(s) = sep THEN <<cur>> \o SplitFrom(Tail(s), sep, <<>>)
    ELSE SplitFrom(Tail(s), sep, Append(cur, Head(s)))

Split(s, sep) == SplitFrom(s, sep, <<>>)

(***************************************************************************)
(* package regexp: regexp.MatchString(pattern, s) for the patterns of the  *)
(* model: literals, '.', '*', '^' and '$'.  A pattern with an unclosed     *)
(* '(' or '[', or with nothing before a '*', does not compile.             *)
(***************************************************************************)
Count(s, c) == Len(SelectSeq(s, LAMBDA x : x = c))

RegexpInvalid(pattern) ==
    \/ Count(pattern, "(") # Count(pattern, ")")
    \/ Count(pattern, "[") # Count(pattern, "]")
    \/ (pattern # <<>> /\ Head(pattern) = "*")
    \/ \E i \in 1..(Len(pattern) - 1) : pattern[i] \in {"^", "*"} /\ pattern[i + 1] = "*"

RECURSIVE MatchHere(_, _)
RECURSIVE MatchStar(_, _, _)
MatchHere(re, text) ==
    IF re = <<>> THEN TRUE
    ELSE IF Len(re) >= 2 /\ re[2] = "*" THEN MatchStar(re[1], SubSeq(re, 3, Len(re)), text)
    ELSE IF re = <<"$">> THEN text = <<>>
    ELSE IF text # <<>> /\ (re[1] = "." \/ re[1] = text[1])
         THEN MatchHere(Tail(re), Tail(text))
    ELSE FALSE

MatchStar(c, re, text) ==
    \/ MatchHere(re, text)
    \/ (text # <<>> /\ (c = "." \/ c = text[1]) /\ MatchStar(c, re, Tail(text)))

\* the match half of regexp.MatchString, for a pattern that compiles
RegexpMatch(pattern, s) ==
    IF pattern # <<>> /\ Head(pattern) = "^"
    THEN MatchHere(Tail(pattern), s)
    ELSE \E i \in 1..(Len(s) + 1) : MatchHere(pattern, SubSeq(s, i, Len(s)))

(***************************************************************************)
(* models.RiskRule and the Rule Store content of the model                 *)
(***************************************************************************)
\* expires_at IS NULL, RiskRule.ExpiresAt == nil; a row that expires at t has <<t>>
NoExpiry == <<>>
ExpiresAtTime(t) == <<t>>

Rule(id, name, type, category, value, score, confidence, expiresAt) ==
    [ID |-> id, Name |-> name, Type |-> type, Category |-> category,
     Value |-> value, Score |-> score, Confidence |-> confidence,
     IsActive |-> TRUE, ExpiresAt |-> expiresAt]

E1 == Rule("e1", "Known bad address", "EMAIL_BLACKLIST", "EMAIL", <<"b","a","d","@","x",".","c","o","m">>, 100, 100, NoExpiry)
E2 == Rule("e2", "Listed address", "BLACKLIST", "EMAIL", <<"b","a","d","@","x",".","c","o","m">>, 100, 100, NoExpiry)
E3 == Rule("e3", "Suspicious Email Domain Test", "DOMAIN_BLACKLIST", "EMAIL", <<"X",".","c","o","m">>, 75, 90, NoExpiry)
E4 == Rule("e4", "Broken pattern", "PATTERN_MATCH", "EMAIL", <<"(","b","a","d">>, 50, 100, NoExpiry)
E5 == Rule("e5", "Bad local part", "PATTERN_MATCH", "EMAIL", <<"^","b","a",".","*","@">>, 30, 50, NoExpiry)
N1 == Rule("n1", "Blocked name", "NAME_BLACKLIST", "NAME", <<"J","o","h","n"," ","D","o","e">>, 40, 100, NoExpiry)
N2 == Rule("n2", "Broken name pattern", "PATTERN_MATCH", "NAME", <<"[","j","d">>, 25, 100, NoExpiry)
N3 == Rule("n3", "Doe family", "LAST_NAME_BLACKLIST", "NAME", <<"d","o","e">>, 10, 35, NoExpiry)
P1 == Rule("p1", "Blocked prefix", "PREFIX_BLACKLIST", "PHONE", <<"+","1","-","5","5","5">>, 20, 100, NoExpiry)
P2 == Rule("p2", "Untyped phone rule", "PHONE_CONTAINS", "PHONE", <<"5","5","5">>, 45, 100, NoExpiry)

\* a temporary rule (CreateRiskRule with ExpiresInDays): it expires two
\* minutes after the engine has started
E6 == Rule("e6", "Temporary block", "EMAIL_BLACKLIST", "EMAIL", <<"b","a","d","@","x",".","c","o","m">>, 100, 100, ExpiresAtTime(StartTime + 2))

\* rules whose value asks nothing of the input
P3 == Rule("p3", "Any phone", "PATTERN_MATCH", "PHONE", <<".","*">>, 30, 100, NoExpiry)
P4 == Rule("p4", "Dash", "PHONE_BLACKLIST", "PHONE", <<"-">>, 35, 100, NoExpiry)
N4 == Rule("n4", "Any name", "PATTERN_MATCH", "NAME", <<".","*">>, 15, 100, NoExpiry)

\* the rules a Rule Store may hold when empty inputs are checked (SpecEmptyInput)
PermissivePool == {P1, P3, P4, N1, N4}

\* a temporary NAME rule that expires with E6
N6 == Rule("n6", "Temporary name block", "NAME_BLACKLIST", "NAME", <<"J","o","h","n"," ","D","o","e">>, 40, 100, ExpiresAtTime(StartTime + 2))

\* the rules a Rule Store may hold when the evaluation is checked (SpecEval)
RulePool == {E1, E2, E3, E4, E5, N1, N2, N3, P1, P2}

\* GetRulesByCategory: category = ? AND is_active = ? AND
\* (expires_at IS NULL OR expires_at > now), ORDER BY score DESC.
\* Rows of equal score come back in an order the query does not fix.
ActiveRules(rules, category, t) ==
    {r \in rules : /\ r.Category = category
                   /\ r.IsActive
                   /\ (r.ExpiresAt = NoExpiry \/ r.ExpiresAt[1] > t)}

ScoreDesc(S) ==
    {sq \in [1..Cardinality(S) -> S] :
        /\ \A i, j \in 1..Cardinality(S) : i # j => sq[i] # sq[j]
        /\ \A i \in 1..(Cardinality(S) - 1) : sq[i].Score >= sq[i + 1].Score}

GetRulesByCategory(rules, category, t) == ScoreDesc(ActiveRules(rules, category, t))

\* a Go map: an absent key reads as the zero value
EmptyMap == <<>>
MapGet(m, k) == IF k \in DOMAIN m THEN m[k] ELSE <<>>
MapPut(m, k, v) == [x \in (DOMAIN m) \cup {k} |-> IF x = k THEN v ELSE m[x]]

\* the *time.Time of a scanned row: one allocation per row and per load
Pointer(owner, id) == <<owner, id>>

\* Find(&rules): a row becomes a models.RiskRule; a non-NULL expires_at becomes
\* a pointer to a time.Time allocated for this rule
Scan(row, owner) ==
    IF row.ExpiresAt = NoExpiry THEN row
    ELSE [row EXCEPT !.ExpiresAt = Pointer(owner, row.ID)]

ScanAll(rows, owner) == [i \in DOMAIN rows |-> Scan(rows[i], owner)]

\* the memory after the rows have been scanned
RECURSIVE Allocate(_, _, _)
Allocate(h, rows, owner) ==
    IF rows = <<>> THEN h
    ELSE IF Head(rows).ExpiresAt = NoExpiry THEN Allocate(h, Tail(rows), owner)
    ELSE Allocate(MapPut(h, Pointer(owner, Head(rows).ID), Head(rows).ExpiresAt[1]),
                  Tail(rows), owner)

(***************************************************************************)
(* Rule evaluators (risk_engine.go)                                        *)
(***************************************************************************)
Eval(matched, err) == [matched |-> matched, err |-> err]

\* regexp.MatchString: (matched, err)
MatchString(pattern, s) ==
    IF RegexpInvalid(pattern) THEN Eval(FALSE, TRUE)
    ELSE Eval(RegexpMatch(pattern, s), FALSE)

extractDomain(email) ==
    LET parts == Split(email, "@")
    IN IF Len(parts) # 2 THEN <<>> ELSE ToLower(parts[2])

\* a plausible slip: the periods are left in
normalizePhoneNumberKeepingDots(phone) ==
    TrimSpace(RemoveAll(RemoveAll(RemoveAll(RemoveAll(RemoveAll(
        phone, " "), "-"), "("), ")"), "+"))

normalizePhoneNumber(phone) ==
    TrimSpace(RemoveAll(RemoveAll(RemoveAll(RemoveAll(RemoveAll(RemoveAll(
        phone, " "), "-"), "("), ")"), "+"), "."))

evaluateEmailRule(rule, emailLower) ==
    CASE rule.Type = "EMAIL_BLACKLIST" ->
            Eval(EqualFold(emailLower, ToLower(rule.Value)), FALSE)
      [] rule.Type = "PATTERN_MATCH" -> MatchString(rule.Value, emailLower)
      [] rule.Type = "DOMAIN_BLACKLIST" ->
            Eval(EqualFold(extractDomain(emailLower), ToLower(rule.Value)), FALSE)
      [] rule.Type = "CONTAINS" ->
            Eval(Contains(emailLower, ToLower(rule.Value)), FALSE)
      [] OTHER -> Eval(FALSE, TRUE)

evaluateNameRule(rule, firstNameLower, lastNameLower, fullName) ==
    CASE rule.Type = "NAME_BLACKLIST" ->
            Eval(EqualFold(fullName, ToLower(rule.Value)), FALSE)
      [] rule.Type = "PATTERN_MATCH" -> MatchString(rule.Value, fullName)
      [] rule.Type = "CONTAINS" ->
            Eval(Contains(fullName, ToLower(rule.Value)), FALSE)
      [] rule.Type = "FIRST_NAME_BLACKLIST" ->
            Eval(EqualFold(firstNameLower, ToLower(rule.Value)), FALSE)
      [] rule.Type = "LAST_NAME_BLACKLIST" ->
            Eval(EqualFold(lastNameLower, ToLower(rule.Value)), FALSE)
      [] OTHER -> Eval(FALSE, TRUE)

evaluatePhoneRule(rule, normalizedPhone) ==
    CASE rule.Type = "PHONE_BLACKLIST" ->
            Eval(normalizedPhone = normalizePhoneNumber(rule.Value), FALSE)
      [] rule.Type = "PATTERN_MATCH" -> MatchString(rule.Value, normalizedPhone)
      [] rule.Type = "PREFIX_BLACKLIST" ->
            Eval(HasPrefix(normalizedPhone, normalizePhoneNumber(rule.Value)), FALSE)
      [] OTHER -> Eval(FALSE, TRUE)

(***************************************************************************)
(* Confidence scoring: int(float64(rule.Score) * rule.Confidence).         *)
(* The product is taken on the hundredths grid; int() truncates toward     *)
(* zero.                                                                   *)
(***************************************************************************)
IntOfHundredths(x) == IF x >= 0 THEN x \div 100 ELSE -((-x) \div 100)

\* a plausible slip: round to nearest instead of truncating
AdjustedScoreRounded(rule) == IntOfHundredths(rule.Score * rule.Confidence + 50)

AdjustedScore(rule) == IntOfHundredths(rule.Score * rule.Confidence)

\* what one check*Risk pass returns
Partial(totalScore, flags, matchedRules) ==
    [totalScore |-> totalScore, flags |-> flags, matchedRules |-> matchedRules]

\* a plausible slip: the flag is the bare rule type, without the category prefix
MatchedBareType(acc, rule, prefix) ==
    Partial(acc.totalScore + AdjustedScore(rule),
            Append(acc.flags, rule.Type),
            Append(acc.matchedRules, rule))

\* lines 189-194 (and 257-261, 322-326): a matched rule adds its adjusted score,
\* the flag fmt.Sprintf("<CATEGORY>_%s", rule.Type) and itself
Matched(acc, rule, prefix) ==
    Partial(acc.totalScore + AdjustedScore(rule),
            Append(acc.flags, prefix \o rule.Type),
            Append(acc.matchedRules, rule))

NoMatches == Partial(0, <<>>, <<>>)

\* a plausible slip: the loop stops at the first rule that fails to evaluate
RECURSIVE emailRulesLoopBreak(_, _, _)
emailRulesLoopBreak(rules, emailLower, acc) ==
    IF rules = <<>> THEN acc
    ELSE LET rule == Head(rules)
             ev == evaluateEmailRule(rule, emailLower)
         IN  IF ev.err THEN acc
             ELSE IF ev.matched
                  THEN emailRulesLoopBreak(Tail(rules), emailLower, Matched(acc, rule, "EMAIL_"))
                  ELSE emailRulesLoopBreak(Tail(rules), emailLower, acc)

\* a plausible slip: the raw score is added, the audit entry keeps the adjusted one
RECURSIVE emailRulesLoopRaw(_, _, _)
emailRulesLoopRaw(rules, emailLower, acc) ==
    IF rules = <<>> THEN acc
    ELSE LET rule == Head(rules)
             ev == evaluateEmailRule(rule, emailLower)
         IN  IF ~ev.err /\ ev.matched
             THEN emailRulesLoopRaw(Tail(rules), emailLower,
                      Partial(acc.totalScore + rule.Score,
                              Append(acc.flags, "EMAIL_" \o rule.Type),
                              Append(acc.matchedRules, rule)))
             ELSE emailRulesLoopRaw(Tail(rules), emailLower, acc)

\* checkEmailRisk: for _, rule := range rules { ... }
RECURSIVE emailRulesLoop(_, _, _)
emailRulesLoop(rules, emailLower, acc) ==
    IF rules = <<>> THEN acc
    ELSE LET rule == Head(rules)
             ev == evaluateEmailRule(rule, emailLower)
         IN  IF ev.err THEN emailRulesLoop(Tail(rules), emailLower, acc)
             ELSE IF ev.matched
                  THEN emailRulesLoop(Tail(rules), emailLower, Matched(acc, rule, "EMAIL_"))
                  ELSE emailRulesLoop(Tail(rules), emailLower, acc)

\* checkEmailRisk on the copy `rules` taken from ruleCache["EMAIL"]
checkEmailRisk(rules, email) ==
    emailRulesLoop(rules, ToLower(TrimSpace(email)), NoMatches)

\* checkNameRisk: for _, rule := range rules { ... }
RECURSIVE nameRulesLoop(_, _, _, _, _)
nameRulesLoop(rules, firstNameLower, lastNameLower, fullName, acc) ==
    IF rules = <<>> THEN acc
    ELSE LET rule == Head(rules)
             ev == evaluateNameRule(rule, firstNameLower, lastNameLower, fullName)
         IN  IF ev.err
             THEN nameRulesLoop(Tail(rules), firstNameLower, lastNameLower, fullName, acc)
             ELSE IF ev.matched
                  THEN nameRulesLoop(Tail(rules), firstNameLower, lastNameLower, fullName,
                                     Matched(acc, rule, "NAME_"))
                  ELSE nameRulesLoop(Tail(rules), firstNameLower, lastNameLower, fullName, acc)

\* strings.TrimSpace(firstNameLower + " " + lastNameLower)
FullName(firstNameLower, lastNameLower) ==
    TrimSpace(firstNameLower \o <<" ">> \o lastNameLower)

\* checkNameRisk on the copy `rules` taken from ruleCache["NAME"]
checkNameRisk(rules, firstName, lastName) ==
    LET firstNameLower == ToLower(TrimSpace(firstName))
        lastNameLower == ToLower(TrimSpace(lastName))
    IN  nameRulesLoop(rules, firstNameLower, lastNameLower,
                      FullName(firstNameLower, lastNameLower), NoMatches)

\* checkPhoneRisk: for _, rule := range rules { ... }
RECURSIVE phoneRulesLoop(_, _, _)
phoneRulesLoop(rules, normalizedPhone, acc) ==
    IF rules = <<>> THEN acc
    ELSE LET rule == Head(rules)
             ev == evaluatePhoneRule(rule, normalizedPhone)
         IN  IF ev.err THEN phoneRulesLoop(Tail(rules), normalizedPhone, acc)
             ELSE IF ev.matched
                  THEN phoneRulesLoop(Tail(rules), normalizedPhone, Matched(acc, rule, "PHONE_"))
                  ELSE phoneRulesLoop(Tail(rules), normalizedPhone, acc)

\* checkPhoneRisk on the copy `rules` taken from ruleCache["PHONE"]
checkPhoneRisk(rules, phone) ==
    phoneRulesLoop(rules, normalizePhoneNumber(phone), NoMatches)

(***************************************************************************)
(* Classification and result assembly                                      *)
(***************************************************************************)
Level(riskLevel, isRisky) == [RiskLevel |-> riskLevel, IsRisky |-> isRisky]

\* a plausible slip: strict comparisons move every threshold up by one
calculateRiskLevelStrict(totalScore) ==
    CASE totalScore > 100 -> Level("CRITICAL", TRUE)
      [] totalScore > 80 -> Level("HIGH", TRUE)
      [] totalScore > 40 -> Level("MEDIUM", TRUE)
      [] totalScore > 20 -> Level("LOW", FALSE)
      [] OTHER -> Level("MINIMAL", FALSE)

\* switch { case totalScore >= 100: ... }: the first case that holds is taken
calculateRiskLevel(totalScore) ==
    IF totalScore >= 100 THEN Level("CRITICAL", TRUE)
    ELSE IF totalScore >= 80 THEN Level("HIGH", TRUE)
    ELSE IF totalScore >= 40 THEN Level("MEDIUM", TRUE)
    ELSE IF totalScore >= 20 THEN Level("LOW", FALSE)
    ELSE Level("MINIMAL", FALSE)

Digits == <<"0", "1", "2", "3", "4", "5", "6", "7", "8", "9">>

\* fmt %d
RECURSIVE Itoa(_)
Itoa(n) ==
    IF n < 0 THEN "-" \o Itoa(-n)
    ELSE IF n < 10 THEN Digits[n + 1]
    ELSE Itoa(n \div 10) \o Digits[(n % 10) + 1]

\* strings.Join(elems, sep)
RECURSIVE Join(_, _)
Join(elems, sep) ==
    IF elems = <<>> THEN ""
    ELSE IF Len(elems) = 1 THEN elems[1]
    ELSE elems[1] \o sep \o Join(Tail(elems), sep)

\* fmt.Sprintf("%s (score: %d)", rule.Name, adjustedScore)
ReasonOf(rule) == rule.Name \o " (score: " \o Itoa(AdjustedScore(rule)) \o ")"

\* a plausible slip: one result object is reused, a later check starts from
\* the total of an earlier one
NewResultReused(checkID, userID) ==
    [CheckID |-> checkID, UserID |-> userID, IsRisky |-> FALSE,
     RiskLevel |-> "MINIMAL",
     TotalScore |-> IF checkID \in {"", "check_1"} THEN 0 ELSE 100,
     Reason |-> "No risk factors detected", Flags |-> <<>>, MatchedRules |-> <<>>]

\* the result CheckRisk starts from (lines 45-55)
NewResult(checkID, userID) ==
    [CheckID |-> checkID, UserID |-> userID, IsRisky |-> FALSE,
     RiskLevel |-> "MINIMAL", TotalScore |-> 0,
     Reason |-> "No risk factors detected", Flags |-> <<>>, MatchedRules |-> <<>>]

\* a plausible slip: the reason is always the joined list, empty without matches
AssembleAlwaysJoins(result, flagStrings, matchedRules) ==
    LET lv == calculateRiskLevel(result.TotalScore)
    IN  [result EXCEPT
           !.RiskLevel = lv.RiskLevel,
           !.IsRisky = lv.IsRisky,
           !.Flags = [i \in 1..Len(flagStrings) |->
                         [CheckID |-> result.CheckID, Flag |-> flagStrings[i]]],
           !.MatchedRules = [i \in 1..Len(matchedRules) |->
                         [CheckID |-> result.CheckID,
                          RuleID |-> matchedRules[i].ID,
                          RuleName |-> matchedRules[i].Name,
                          ScoreAdded |-> AdjustedScore(matchedRules[i])]],
           !.Reason = Join([i \in 1..Len(matchedRules) |-> ReasonOf(matchedRules[i])], "; ")]

\* a plausible slip: the flags and audit entries are built without the check id
AssembleWithoutCheckID(result, flagStrings, matchedRules) ==
    LET lv == calculateRiskLevel(result.TotalScore)
    IN  [result EXCEPT
           !.RiskLevel = lv.RiskLevel,
           !.IsRisky = lv.IsRisky,
           !.Flags = [i \in 1..Len(flagStrings) |->
                         [CheckID |-> "", Flag |-> flagStrings[i]]],
           !.MatchedRules = [i \in 1..Len(matchedRules) |->
                         [CheckID |-> "",
                          RuleID |-> matchedRules[i].ID,
                          RuleName |-> matchedRules[i].Name,
                          ScoreAdded |-> AdjustedScore(matchedRules[i])]],
           !.Reason = IF Len(matchedRules) > 0
                      THEN Join([i \in 1..Len(matchedRules) |-> ReasonOf(matchedRules[i])], "; ")
                      ELSE result.Reason]

\* lines 84-110: level, flags, audit entries and reason of the result
Assemble(result, flagStrings, matchedRules) ==
    LET lv == calculateRiskLevel(result.TotalScore)
    IN  [result EXCEPT
           !.RiskLevel = lv.RiskLevel,
           !.IsRisky = lv.IsRisky,
           !.Flags = [i \in 1..Len(flagStrings) |->
                         [CheckID |-> result.CheckID, Flag |-> flagStrings[i]]],
           !.MatchedRules = [i \in 1..Len(matchedRules) |->
                         [CheckID |-> result.CheckID,
                          RuleID |-> matchedRules[i].ID,
                          RuleName |-> matchedRules[i].Name,
                          ScoreAdded |-> AdjustedScore(matchedRules[i])]],
           !.Reason = IF Len(matchedRules) > 0
                      THEN Join([i \in 1..Len(matchedRules) |-> ReasonOf(matchedRules[i])], "; ")
                      ELSE result.Reason]

\* handlers/risk.go lines 54-65: the RiskCheckResponse built from the result
ResponseOf(result) ==
    [UserId |-> result.UserID, IsRisky |-> result.IsRisky,
     RiskLevel |-> result.RiskLevel, Reason |-> result.Reason,
     Flags |-> [i \in 1..Len(result.Flags) |-> result.Flags[i].Flag]]

(***************************************************************************)
(* State                                                                   *)
(***************************************************************************)
VARIABLES
    now,            \* wall clock (time.Now), minutes
    store,          \* Rule Store: the rows of risk_rules
    ruleCache,      \* RiskEngine.ruleCache: category -> rules (a Go map)
    cacheTime,      \* RiskEngine.cacheTime
    cacheMutex,     \* holder of cacheMutex.Lock(), 0 when free
    pc,             \* where each caller's CheckRisk call is
    req,            \* the RiskCheckRequest of each call
    cacheExpired,   \* refreshRulesCache: local cacheExpired
    newCache,       \* refreshRulesCache: local newCache
    result,         \* CheckRisk: result
    flagStrings,    \* CheckRisk: local flagStrings
    matchedRules,   \* CheckRisk: local matchedRules
    rules,          \* check*Risk: the copies taken from the cache by this call
    reply,          \* what RiskHandler.CheckRisk returned: (response, err)
    issued,         \* check ids generated so far
    adminPc,        \* where the admin handler is
    adminOps,       \* rule mutations made by the admin handler
    invalidated,    \* history: InvalidateCache returned and no refresh completed since
    priorCacheTime, \* history: cacheTime just before the last InvalidateCache
    sawInvalidated, \* history: the call tested staleness while `invalidated`
    passes,         \* history: the newCache maps of completed load passes
    totalScore,     \* calculateRiskLevel: argument
    level,          \* calculateRiskLevel: return value
    storeLog,       \* history: the Rule Store after each admin mutation
    seen,           \* history: admin mutations whose handler had returned when the call started
    heap,           \* the time.Time values that the ExpiresAt pointers point to
    snapshot,       \* the slice an outside caller holds from GetCachedRules
    storePc,        \* where each call's background StoreRiskResult is
    tx,             \* rows written in the open transaction of each StoreRiskResult
    db,             \* committed rows of the result tables
    written,        \* history: fields of the result written after the hand-off
    ctx,            \* the request context of each call: "live", or where the call was when it was cancelled
    overlap,        \* history: the last refresh stored its rules while an InvalidateCache was waiting
    arg,            \* argument of the function under evaluation
    ret,            \* its return value
    userDb,         \* user service: the row of the user in the users table
    sessionPc,      \* user service: where each Login / UpdateUser call is
    sessionUser,    \* user service: the *models.User each call has read
    criticalPc      \* user service: where the handleCriticalRisk goroutine is

engineVars == <<ruleCache, cacheTime, cacheMutex>>
callVars == <<pc, req, cacheExpired, newCache, result, flagStrings, matchedRules,
              rules, reply, issued, sawInvalidated>>
adminVars == <<adminPc, adminOps>>
historyVars == <<invalidated, priorCacheTime, passes>>
levelVars == <<totalScore, level>>
versionVars == <<storeLog, seen>>
snapshotVars == <<heap, snapshot>>
persistVars == <<storePc, tx, db, written>>
pureVars == <<arg, ret>>
userVars == <<userDb, sessionPc, sessionUser, criticalPc>>
extraVars == <<ctx, overlap, pureVars, userVars>>
\* everything of the risk engine and its handlers
riskVars == <<now, store, engineVars, callVars, adminVars, historyVars, levelVars,
              versionVars, snapshotVars, persistVars>>
vars == <<riskVars, extraVars>>

Callers == 1..NumCallers

Request(userId, email, firstName, lastName, phone) ==
    [UserId |-> userId, Email |-> email, FirstName |-> firstName,
     LastName |-> lastName, Phone |-> phone]

NoRequest == Request("", <<>>, <<>>, <<>>, <<>>)

\* requests of the evaluation check
Emails == {<<"b","a","d","@","x",".","c","o","m">>, <<" ","B","a","d","@","X",".","c","o","m">>, <<"o","k","@","y",".","o","r","g">>}
Names == {<<<<"J","o","h","n">>, <<"D","o","e">>>>, <<<<>>, <<>>>>}
Phones == {<<"+","1"," ","(","5","5","5",")"," ","0","0","0","-","1","2","3","4">>, <<>>}
Requests == {Request("u1", e, n[1], n[2], ph) : e \in Emails, n \in Names, ph \in Phones}

\* the request the concurrent callers send
SuspiciousRequest ==
    Request("u1", <<"b","a","d","@","x",".","c","o","m">>, <<"J","o","h","n">>, <<"D","o","e">>, <<"+","1"," ","(","5","5","5",")"," ","0","0","0","-","1","2","3","4">>)

\* the Rule Store of the concurrency check, and the rule the admin adds to it
InitialStore == {E1, N1}
AdminPool == {E3}
\* the rule the admin switches off
UpdatePool == {E1}

\* the handler has not returned yet; the nil *RiskCheckResponse of an error return
NoResponse == [none |-> TRUE]
NilResponse == [nil |-> TRUE]

NoReply == [response |-> NoResponse, err |-> FALSE]

\* no function is under evaluation
NoArg == [none |-> TRUE]
NoRet == [none |-> TRUE]

\* user service: Login and UpdateUser calls, which may overlap
Sessions == 1..NumSessions

\* the user as Register created it (user.go lines 106-115): IsActive true
RegisteredUser == [IsActive |-> TRUE, FirstName |-> "John", LastLoginAt |-> 0]

\* the outside caller holds no slice yet
NoSnapshot == [category |-> "", rules |-> <<>>]
NoLevel == Level("", FALSE)

\* generateCheckID: unique per call
CheckIDOf(n) == "check_" \o Itoa(n)

InitCalls ==
    /\ pc = [p \in Callers |-> "idle"]
    /\ req = [p \in Callers |-> NoRequest]
    /\ cacheExpired = [p \in Callers |-> FALSE]
    /\ newCache = [p \in Callers |-> EmptyMap]
    /\ result = [p \in Callers |-> NewResult("", "")]
    /\ flagStrings = [p \in Callers |-> <<>>]
    /\ matchedRules = [p \in Callers |-> <<>>]
    /\ rules = [p \in Callers |-> EmptyMap]
    /\ reply = [p \in Callers |-> NoReply]
    /\ issued = 0
    /\ sawInvalidated = [p \in Callers |-> FALSE]
    /\ seen = [p \in Callers |-> 0]
    /\ storePc = [p \in Callers |-> "none"]
    /\ tx = [p \in Callers |-> {}]
    /\ written = [p \in Callers |-> {}]
    /\ ctx = [p \in Callers |-> "live"]

\* NewRiskEngine: empty map, cacheTime the zero value, 5 minute TTL
InitEngine ==
    /\ ruleCache = EmptyMap
    /\ cacheTime = ZeroTime
    /\ cacheMutex = 0
    /\ now = StartTime
    /\ adminPc = "idle"
    /\ adminOps = 0
    /\ invalidated = FALSE
    /\ priorCacheTime = ZeroTime
    /\ passes = {}
    /\ heap = EmptyMap
    /\ snapshot = NoSnapshot
    /\ db = {}
    /\ overlap = FALSE
    /\ userDb = RegisteredUser
    /\ sessionPc = [s \in Sessions |-> "idle"]
    /\ sessionUser = [s \in Sessions |-> RegisteredUser]
    /\ criticalPc = "spawned"

Init ==
    /\ InitEngine
    /\ InitCalls
    /\ store = InitialStore
    /\ storeLog = <<store>>
    /\ arg = NoArg
    /\ ret = NoRet
    /\ totalScore = 0
    /\ level = NoLevel

(***************************************************************************)
(* RiskHandler.CheckRisk -> RiskEngine.CheckRisk                           *)
(***************************************************************************)
\* handler entry and CheckRisk lines 45-55
CheckRiskStart(p, r) ==
    /\ pc[p] = "idle"
    /\ issued' = issued + 1
    /\ req' = [req EXCEPT ![p] = r]
    /\ result' = [result EXCEPT ![p] = NewResult(CheckIDOf(issued + 1), r.UserId)]
    /\ flagStrings' = [flagStrings EXCEPT ![p] = <<>>]
    /\ matchedRules' = [matchedRules EXCEPT ![p] = <<>>]
    /\ rules' = [rules EXCEPT ![p] = EmptyMap]
    /\ newCache' = [newCache EXCEPT ![p] = EmptyMap]
    /\ reply' = [reply EXCEPT ![p] = NoReply]
    /\ seen' = [seen EXCEPT ![p] = IF adminPc = "idle" THEN adminOps ELSE adminOps - 1]
    /\ pc' = [pc EXCEPT ![p] = "refresh"]
    /\ UNCHANGED <<extraVars, now, store, engineVars, cacheExpired, sawInvalidated,
                   adminVars, historyVars, levelVars,
                   storeLog, snapshotVars, persistVars>>

\* time.Since(re.cacheTime) >= re.cacheTTL
CacheExpired(t, since) == t - since >= CacheTTL

\* refreshRulesCache lines 128-134: the staleness test under the read lock
TestStaleness(p) ==
    /\ pc[p] = "refresh"
    /\ cacheMutex = 0
    /\ cacheExpired' = [cacheExpired EXCEPT ![p] = CacheExpired(now, cacheTime)]
    /\ sawInvalidated' = [sawInvalidated EXCEPT ![p] = invalidated]
    /\ pc' = [pc EXCEPT ![p] = IF CacheExpired(now, cacheTime) THEN "lock" ELSE "email"]
    /\ UNCHANGED <<extraVars, now, store, engineVars, req, newCache, result, flagStrings,
                   matchedRules, rules, reply, issued,
                   adminVars, historyVars, levelVars,
                   versionVars, snapshotVars, persistVars>>

\* refreshRulesCache lines 136-141: Lock, then newCache := make(map)
LockCache(p) ==
    /\ pc[p] = "lock"
    /\ cacheMutex = 0
    /\ cacheMutex' = p
    /\ newCache' = [newCache EXCEPT ![p] = EmptyMap]
    /\ pc' = [pc EXCEPT ![p] = "load"]
    /\ UNCHANGED <<extraVars, now, store, ruleCache, cacheTime, req, cacheExpired, result,
                   flagStrings, matchedRules, rules, reply, issued,
                   sawInvalidated, adminVars, historyVars, levelVars,
                   versionVars, snapshotVars, persistVars>>

\* the category the loop of lines 145-151 loads next
NextCategory(p) == Categories[Cardinality(DOMAIN newCache[p]) + 1]

\* a plausible slip: each category is written into the live cache as it is loaded
LoadRulesWriteThrough(p) ==
    /\ pc[p] = "load"
    /\ cacheMutex = p
    /\ \E loaded \in GetRulesByCategory(store, NextCategory(p), now) :
         LET scanned == ScanAll(loaded, result[p].CheckID)
             filled == MapPut(newCache[p], NextCategory(p), scanned)
         IN  /\ newCache' = [newCache EXCEPT ![p] = filled]
             /\ heap' = Allocate(heap, loaded, result[p].CheckID)
             /\ ruleCache' = MapPut(ruleCache, NextCategory(p), scanned)
             /\ pc' = [pc EXCEPT ![p] =
                          IF DOMAIN filled = CategorySet THEN "commit" ELSE "load"]
             /\ passes' = IF DOMAIN filled = CategorySet
                          THEN passes \cup {filled} ELSE passes
    /\ UNCHANGED <<extraVars, now, store, cacheTime, cacheMutex, req, cacheExpired, result,
                   flagStrings, matchedRules, rules, reply, issued,
                   sawInvalidated, adminVars, invalidated, priorCacheTime, levelVars,
                   versionVars, snapshot, persistVars>>

\* lines 146-150: one category loaded from the Rule Store into newCache
LoadRules(p) ==
    /\ pc[p] = "load"
    /\ cacheMutex = p
    /\ \E loaded \in GetRulesByCategory(store, NextCategory(p), now) :
         LET scanned == ScanAll(loaded, result[p].CheckID)
             filled == MapPut(newCache[p], NextCategory(p), scanned)
         IN  /\ newCache' = [newCache EXCEPT ![p] = filled]
             /\ heap' = Allocate(heap, loaded, result[p].CheckID)
             /\ ruleCache' = ruleCache
             /\ pc' = [pc EXCEPT ![p] =
                          IF DOMAIN filled = CategorySet THEN "commit" ELSE "load"]
             /\ passes' = IF DOMAIN filled = CategorySet
                          THEN passes \cup {filled} ELSE passes
    /\ UNCHANGED <<extraVars, now, store, cacheTime, cacheMutex, req, cacheExpired, result,
                   flagStrings, matchedRules, rules, reply, issued,
                   sawInvalidated, adminVars, invalidated, priorCacheTime, levelVars,
                   versionVars, snapshot, persistVars>>

\* a plausible slip: the error path returns without releasing the lock
LoadFailsHoldingLock(p) ==
    /\ pc[p] = "load"
    /\ cacheMutex = p
    /\ cacheMutex' = cacheMutex
    /\ pc' = [pc EXCEPT ![p] = "failed"]
    /\ UNCHANGED <<extraVars, now, store, ruleCache, cacheTime, req, cacheExpired, newCache,
                   result, flagStrings, matchedRules, rules, reply, issued,
                   sawInvalidated, adminVars, historyVars, levelVars,
                   versionVars, snapshotVars, persistVars>>

\* lines 147-149: the query fails; the deferred Unlock runs, CheckRisk returns
\* (result, err) at line 60
LoadFails(p) ==
    /\ pc[p] = "load"
    /\ cacheMutex = p
    /\ cacheMutex' = 0
    /\ pc' = [pc EXCEPT ![p] = "failed"]
    /\ UNCHANGED <<extraVars, now, store, ruleCache, cacheTime, req, cacheExpired, newCache,
                   result, flagStrings, matchedRules, rules, reply, issued,
                   sawInvalidated, adminVars, historyVars, levelVars,
                   versionVars, snapshotVars, persistVars>>

\* lines 153-163: the new cache replaces the old, the deferred Unlock runs
StoreCache(p) ==
    /\ pc[p] = "commit"
    /\ cacheMutex = p
    /\ ruleCache' = newCache[p]
    /\ cacheTime' = now
    /\ cacheMutex' = 0
    /\ invalidated' = FALSE
    /\ overlap' = (adminPc = "invalidate")
    /\ pc' = [pc EXCEPT ![p] = "email"]
    /\ UNCHANGED <<ctx, pureVars, userVars, now, store, req, cacheExpired, newCache, result, flagStrings,
                   matchedRules, rules, reply, issued, sawInvalidated,
                   adminVars, priorCacheTime, passes, levelVars,
                   versionVars, snapshotVars, persistVars>>

\* a plausible slip: a category's matches are put in front of the earlier ones
AddPartialInFront(p, part) ==
    /\ result' = [result EXCEPT ![p].TotalScore = @ + part.totalScore]
    /\ flagStrings' = [flagStrings EXCEPT ![p] = part.flags \o @]
    /\ matchedRules' = [matchedRules EXCEPT ![p] = part.matchedRules \o @]

\* CheckRisk lines 68-70, 74-76, 80-82: one category's outcome added to the call's
AddPartial(p, part) ==
    /\ result' = [result EXCEPT ![p].TotalScore = @ + part.totalScore]
    /\ flagStrings' = [flagStrings EXCEPT ![p] = @ \o part.flags]
    /\ matchedRules' = [matchedRules EXCEPT ![p] = @ \o part.matchedRules]

\* line 67 and checkEmailRisk: the EMAIL rules are copied under the read lock,
\* then evaluated on the copy
CheckEmail(p) ==
    /\ pc[p] = "email"
    /\ cacheMutex = 0
    /\ rules' = [rules EXCEPT ![p] = MapPut(@, "EMAIL", MapGet(ruleCache, "EMAIL"))]
    /\ AddPartial(p, checkEmailRisk(MapGet(ruleCache, "EMAIL"), req[p].Email))
    /\ pc' = [pc EXCEPT ![p] = "name"]
    /\ UNCHANGED <<extraVars, now, store, engineVars, req, cacheExpired, newCache, reply,
                   issued, sawInvalidated, adminVars, historyVars, levelVars,
                   versionVars, snapshotVars, persistVars>>

\* line 73 and checkNameRisk
CheckName(p) ==
    /\ pc[p] = "name"
    /\ cacheMutex = 0
    /\ rules' = [rules EXCEPT ![p] = MapPut(@, "NAME", MapGet(ruleCache, "NAME"))]
    /\ AddPartial(p, checkNameRisk(MapGet(ruleCache, "NAME"),
                                   req[p].FirstName, req[p].LastName))
    /\ pc' = [pc EXCEPT ![p] = "phone"]
    /\ UNCHANGED <<extraVars, now, store, engineVars, req, cacheExpired, newCache, reply,
                   issued, sawInvalidated, adminVars, historyVars, levelVars,
                   versionVars, snapshotVars, persistVars>>

\* line 79 and checkPhoneRisk
CheckPhone(p) ==
    /\ pc[p] = "phone"
    /\ cacheMutex = 0
    /\ rules' = [rules EXCEPT ![p] = MapPut(@, "PHONE", MapGet(ruleCache, "PHONE"))]
    /\ AddPartial(p, checkPhoneRisk(MapGet(ruleCache, "PHONE"), req[p].Phone))
    /\ pc' = [pc EXCEPT ![p] = "assemble"]
    /\ UNCHANGED <<extraVars, now, store, engineVars, req, cacheExpired, newCache, reply,
                   issued, sawInvalidated, adminVars, historyVars, levelVars,
                   versionVars, snapshotVars, persistVars>>

\* lines 84-122: the result is completed and returned with a nil error
AssembleResult(p) ==
    /\ pc[p] = "assemble"
    /\ result' = [result EXCEPT ![p] = Assemble(@, flagStrings[p], matchedRules[p])]
    /\ pc' = [pc EXCEPT ![p] = "returned"]
    /\ UNCHANGED <<extraVars, now, store, engineVars, req, cacheExpired, newCache, flagStrings,
                   matchedRules, rules, reply, issued, sawInvalidated,
                   adminVars, historyVars, levelVars,
                   versionVars, snapshotVars, persistVars>>

\* a plausible slip: the handler drops the error and answers from the result
HandlerReplyIgnoringErr(res, failed) == [response |-> ResponseOf(res), err |-> FALSE]

\* handlers/risk.go lines 40-44 and 54-78: (nil, err) or (response, nil)
HandlerReply(res, failed) ==
    IF failed THEN [response |-> NilResponse, err |-> TRUE]
    ELSE [response |-> ResponseOf(res), err |-> FALSE]

\* a plausible slip: the handler waits for the store and surfaces its error
HandlerFailedOrStoreFailed(p) == pc[p] = "failed" \/ storePc[p] = "failed"

\* handlers/risk.go line 41: if err != nil
HandlerFailed(p) == pc[p] = "failed"

\* handlers/risk.go lines 46-52: go func() { ... StoreRiskResult(analyticsCtx, result) ... }()
\* the result is handed off to the background goroutine
HandlerSpawns(p) ==
    /\ pc[p] = "returned"
    /\ pc' = [pc EXCEPT ![p] = "respond"]
    /\ storePc' = [storePc EXCEPT ![p] = "begin"]
    /\ UNCHANGED <<extraVars, now, store, engineVars, req, cacheExpired, newCache, result,
                   flagStrings, matchedRules, rules, reply, issued, sawInvalidated,
                   adminVars, historyVars, levelVars,
                   versionVars, snapshotVars, tx, db, written>>

\* RiskHandler.CheckRisk returns to the gRPC caller: lines 42-44, or lines 54-78
\* where the response is read off the result
HandlerReturns(p) ==
    /\ pc[p] \in {"respond", "failed"}
    /\ reply' = [reply EXCEPT ![p] = HandlerReply(result[p], HandlerFailed(p))]
    /\ pc' = [pc EXCEPT ![p] = IF HandlerFailed(p) THEN "error" ELSE "done"]
    /\ UNCHANGED <<extraVars, now, store, engineVars, req, cacheExpired, newCache, result,
                   flagStrings, matchedRules, rules, issued, sawInvalidated,
                   adminVars, historyVars, levelVars,
                   versionVars, snapshotVars, persistVars>>

(***************************************************************************)
(* RiskAnalytics.StoreRiskResult, run in the background goroutine of the   *)
(* handler under a 10 second context: every database call may fail.        *)
(* Rows written by tx.Create are in the open transaction (tx) and reach    *)
(* the tables (db) at Commit; the deferred Rollback discards them.         *)
(***************************************************************************)
ResultRow(res) ==
    [table |-> "risk_check_results", CheckID |-> res.CheckID, UserID |-> res.UserID,
     IsRisky |-> res.IsRisky, RiskLevel |-> res.RiskLevel,
     TotalScore |-> res.TotalScore, Reason |-> res.Reason]

FlagRows(res) ==
    {[table |-> "risk_check_flags", n |-> i, CheckID |-> res.Flags[i].CheckID,
      Flag |-> res.Flags[i].Flag] : i \in DOMAIN res.Flags}

RuleMatchRows(res) ==
    {[table |-> "risk_check_rule_matches", n |-> i, CheckID |-> res.MatchedRules[i].CheckID,
      RuleID |-> res.MatchedRules[i].RuleID, RuleName |-> res.MatchedRules[i].RuleName,
      ScoreAdded |-> res.MatchedRules[i].ScoreAdded] : i \in DOMAIN res.MatchedRules}

\* lines 164-167: result.Flags[i].CheckID = result.CheckID
StampFlags(res) ==
    [res EXCEPT !.Flags = [i \in DOMAIN res.Flags |->
                              [res.Flags[i] EXCEPT !.CheckID = res.CheckID]]]

\* lines 176-179: result.MatchedRules[i].CheckID = result.CheckID
StampRuleMatches(res) ==
    [res EXCEPT !.MatchedRules = [i \in DOMAIN res.MatchedRules |->
                              [res.MatchedRules[i] EXCEPT !.CheckID = res.CheckID]]]

\* a write of the goroutine to the result, and where the handler was then
Write(p, field) == [field |-> field, handler |-> pc[p]]

\* the result after the writes StoreRiskResult makes at position `at`
Stamped(res, at) ==
    IF at = "flags" /\ Len(res.Flags) > 0 THEN StampFlags(res)
    ELSE IF at = "matches" /\ Len(res.MatchedRules) > 0 THEN StampRuleMatches(res)
    ELSE res

\* the record of those writes
Stamps(p, at) ==
    IF at = "flags" /\ Len(result[p].Flags) > 0 THEN {Write(p, "Flags[i].CheckID")}
    ELSE IF at = "matches" /\ Len(result[p].MatchedRules) > 0
         THEN {Write(p, "MatchedRules[i].CheckID")}
    ELSE {}

\* line 153: tx := ra.db.WithContext(ctx).Begin()
StoreBegin(p) ==
    /\ storePc[p] = "begin"
    /\ tx' = [tx EXCEPT ![p] = {}]
    /\ storePc' = [storePc EXCEPT ![p] = "create"]
    /\ UNCHANGED <<extraVars, now, store, engineVars, callVars, adminVars, historyVars, levelVars,
                   versionVars, snapshotVars, db, written>>

\* line 159: tx.Create(result)
StoreCreateResult(p) ==
    /\ storePc[p] = "create"
    /\ tx' = [tx EXCEPT ![p] = @ \cup {ResultRow(result[p])}]
    /\ storePc' = [storePc EXCEPT ![p] = "flags"]
    /\ UNCHANGED <<extraVars, now, store, engineVars, callVars, adminVars, historyVars, levelVars,
                   versionVars, snapshotVars, db, written>>

\* lines 163-173: the flags get the CheckID and are inserted, if there are any
StoreInsertFlags(p) ==
    /\ storePc[p] = "flags"
    /\ result' = [result EXCEPT ![p] = Stamped(@, "flags")]
    /\ written' = [written EXCEPT ![p] = @ \cup Stamps(p, "flags")]
    /\ tx' = [tx EXCEPT ![p] = @ \cup FlagRows(Stamped(result[p], "flags"))]
    /\ storePc' = [storePc EXCEPT ![p] = "matches"]
    /\ UNCHANGED <<extraVars, now, store, engineVars, pc, req, cacheExpired, newCache,
                   flagStrings, matchedRules, rules, reply, issued, sawInvalidated,
                   adminVars, historyVars, levelVars, versionVars, snapshotVars, db>>

\* lines 175-185: the rule matches get the CheckID and are inserted, if any
StoreInsertRuleMatches(p) ==
    /\ storePc[p] = "matches"
    /\ result' = [result EXCEPT ![p] = Stamped(@, "matches")]
    /\ written' = [written EXCEPT ![p] = @ \cup Stamps(p, "matches")]
    /\ tx' = [tx EXCEPT ![p] = @ \cup RuleMatchRows(Stamped(result[p], "matches"))]
    /\ storePc' = [storePc EXCEPT ![p] = "commit"]
    /\ UNCHANGED <<extraVars, now, store, engineVars, pc, req, cacheExpired, newCache,
                   flagStrings, matchedRules, rules, reply, issued, sawInvalidated,
                   adminVars, historyVars, levelVars, versionVars, snapshotVars, db>>

\* line 187: tx.Commit() succeeds; the deferred Rollback finds nothing to undo
StoreCommit(p) ==
    /\ storePc[p] = "commit"
    /\ db' = db \cup tx[p]
    /\ tx' = [tx EXCEPT ![p] = {}]
    /\ storePc' = [storePc EXCEPT ![p] = "stored"]
    /\ UNCHANGED <<extraVars, now, store, engineVars, callVars, adminVars, historyVars, levelVars,
                   versionVars, snapshotVars, written>>

\* a plausible slip: no transaction, the rows inserted so far stay in the tables
StoreFailsKeepingRows(p) ==
    /\ storePc[p] \in {"begin", "create", "flags", "matches", "commit"}
    /\ result' = [result EXCEPT ![p] = Stamped(@, storePc[p])]
    /\ written' = [written EXCEPT ![p] = @ \cup Stamps(p, storePc[p])]
    /\ db' = db \cup tx[p]
    /\ tx' = [tx EXCEPT ![p] = {}]
    /\ storePc' = [storePc EXCEPT ![p] = "failed"]
    /\ UNCHANGED <<extraVars, now, store, engineVars, pc, req, cacheExpired, newCache,
                   flagStrings, matchedRules, rules, reply, issued, sawInvalidated,
                   adminVars, historyVars, levelVars, versionVars, snapshotVars>>

\* lines 154-156, 159-161, 169-172, 181-184, 187: Begin, a Create or Commit
\* fails (an error of the database, or the context is done); the deferred
\* Rollback of line 157 discards the rows of the transaction.  The CheckID
\* writes of lines 164-167 and 176-179 come before the Create that fails.
StoreFails(p) ==
    /\ storePc[p] \in {"begin", "create", "flags", "matches", "commit"}
    /\ result' = [result EXCEPT ![p] = Stamped(@, storePc[p])]
    /\ written' = [written EXCEPT ![p] = @ \cup Stamps(p, storePc[p])]
    /\ db' = db
    /\ tx' = [tx EXCEPT ![p] = {}]
    /\ storePc' = [storePc EXCEPT ![p] = "failed"]
    /\ UNCHANGED <<extraVars, now, store, engineVars, pc, req, cacheExpired, newCache,
                   flagStrings, matchedRules, rules, reply, issued, sawInvalidated,
                   adminVars, historyVars, levelVars, versionVars, snapshotVars>>

StoreRiskResult(p) ==
    \/ StoreBegin(p)
    \/ StoreCreateResult(p)
    \/ StoreInsertFlags(p)
    \/ StoreInsertRuleMatches(p)
    \/ StoreCommit(p)
    \/ StoreFails(p)

(***************************************************************************)
(* The request context.  The gRPC server cancels the ctx it handed to      *)
(* RiskHandler.CheckRisk when the caller gives up or the deadline passes.  *)
(* CheckRisk and refreshRulesCache pass ctx to the logger only, and        *)
(* GetRulesByCategory takes no ctx: no step of a call reads ctx.           *)
(***************************************************************************)
\* the call has entered CheckRisk and has not left it
InCheckRisk(p) ==
    pc[p] \in {"refresh", "lock", "load", "commit", "email", "name", "phone", "assemble"}

\* ctx is cancelled while the call is in CheckRisk; ctx remembers where
CancelContext(p) ==
    /\ InCheckRisk(p)
    /\ ctx[p] = "live"
    /\ ctx' = [ctx EXCEPT ![p] = pc[p]]
    /\ UNCHANGED <<riskVars, overlap, pureVars, userVars>>

(***************************************************************************)
(* One rule of a type against one input: checkEmailRisk and checkPhoneRisk *)
(* on a cache that holds that rule only.                                   *)
(***************************************************************************)
\* all strings of at most n characters of the alphabet
StringsUpTo(alphabet, n) == UNION {[1..k -> alphabet] : k \in 0..n}

\* addresses and domains: letters of both cases and the at sign
EmailAlphabet == {"a", "x", "X", "@"}
DomainEmails == StringsUpTo(EmailAlphabet, MaxEmailLen)
DomainValues == {<<"x">>, <<"X">>, <<"a","x">>, <<"x","a">>}

\* a DOMAIN_BLACKLIST rule as CreateRiskRule stores it
DomainRule(value) ==
    Rule("d1", "Blocked domain", "DOMAIN_BLACKLIST", "EMAIL", value, 50, 100, NoExpiry)

\* phone numbers: digits and the characters normalizePhoneNumber removes
PhoneAlphabet == {"1", "5", " ", "-", "(", ")", "+", "."}
ExamplePhone == <<"+","1"," ","(","5","5","5",")"," ","0","0","0","-","1","2","3","4">>
PrefixPhones == StringsUpTo(PhoneAlphabet, MaxPhoneLen) \cup {ExamplePhone}
PhoneValues == {<<"+","1","-","5","5","5">>, <<"1","5">>, <<"(","5",")">>, <<"-">>, <<"5",".","1">>}

\* a PREFIX_BLACKLIST rule as CreateRiskRule stores it
PrefixRule(value) ==
    Rule("x1", "Blocked prefix", "PREFIX_BLACKLIST", "PHONE", value, 20, 100, NoExpiry)

\* checkEmailRisk(ctx, email) with ruleCache["EMAIL"] = [the DOMAIN_BLACKLIST rule]
CheckDomainRule ==
    /\ "email" \in DOMAIN arg
    /\ ret = NoRet
    /\ ret' = [matched |->
                 checkEmailRisk(<<DomainRule(arg.value)>>, arg.email).matchedRules # <<>>]
    /\ UNCHANGED <<riskVars, ctx, overlap, arg, userVars>>

\* checkPhoneRisk(ctx, phone) with ruleCache["PHONE"] = [the PREFIX_BLACKLIST rule]
CheckPrefixRule ==
    /\ "phone" \in DOMAIN arg
    /\ ret = NoRet
    /\ ret' = [normalized |-> normalizePhoneNumber(arg.phone),
               matched |->
                 checkPhoneRisk(<<PrefixRule(arg.value)>>, arg.phone).matchedRules # <<>>]
    /\ UNCHANGED <<riskVars, ctx, overlap, arg, userVars>>

(***************************************************************************)
(* User service (cmd/user/handlers/user.go).  Register has created the     *)
(* user, the risk check of handleUserCreatedSync has answered CRITICAL and *)
(* handleCriticalRisk has been started with the *User of Register.  Every  *)
(* handler works on its own *User and writes it back with                  *)
(* UserRepository.Update, which is db.Save(user): all columns of the row.  *)
(***************************************************************************)
\* the first names an UpdateUser request may carry; "" leaves the name as it is
FirstNames == {"", "Ann"}

\* handleCriticalRisk lines 373-376: user.IsActive = false; Update(user) succeeds
HandleCriticalRisk ==
    /\ criticalPc = "spawned"
    /\ userDb' = [RegisteredUser EXCEPT !.IsActive = FALSE]
    /\ criticalPc' = "done"
    /\ UNCHANGED <<riskVars, ctx, overlap, pureVars, sessionPc, sessionUser>>

\* handleCriticalRisk lines 374-376: Update(user) fails, which is only logged
HandleCriticalRiskFails ==
    /\ criticalPc = "spawned"
    /\ criticalPc' = "failed"
    /\ UNCHANGED <<riskVars, ctx, overlap, pureVars, userDb, sessionPc, sessionUser>>

\* Login lines 57-75: GetByEmail, the IsActive test, the password test
LoginReads(s, passwordOk) ==
    /\ sessionPc[s] = "idle"
    /\ sessionUser' = [sessionUser EXCEPT ![s] = userDb]
    /\ sessionPc' = [sessionPc EXCEPT ![s] =
                        IF userDb.IsActive /\ passwordOk THEN "login" ELSE "rejected"]
    /\ UNCHANGED <<riskVars, ctx, overlap, pureVars, userDb, criticalPc>>

\* Login lines 77-82: user.LastLoginAt = &now; Update(user), whose error is
\* only logged.  The time of the login is the session's number.
LoginSaves(s, saved) ==
    /\ sessionPc[s] = "login"
    /\ sessionUser' = [sessionUser EXCEPT ![s].LastLoginAt = s]
    /\ userDb' = IF saved THEN sessionUser'[s] ELSE userDb
    /\ sessionPc' = [sessionPc EXCEPT ![s] = "done"]
    /\ UNCHANGED <<riskVars, ctx, overlap, pureVars, criticalPc>>

\* UpdateUser lines 232-246: GetByID, then the fields of the request are set
UpdateUserReads(s, firstName) ==
    /\ sessionPc[s] = "idle"
    /\ sessionUser' = [sessionUser EXCEPT ![s] =
                          IF firstName # "" THEN [userDb EXCEPT !.FirstName = firstName]
                          ELSE userDb]
    /\ sessionPc' = [sessionPc EXCEPT ![s] = "update"]
    /\ UNCHANGED <<riskVars, ctx, overlap, pureVars, userDb, criticalPc>>

\* UpdateUser lines 248-251: Update(user); an error is returned to the caller
UpdateUserSaves(s, saved) ==
    /\ sessionPc[s] = "update"
    /\ userDb' = IF saved THEN sessionUser[s] ELSE userDb
    /\ sessionPc' = [sessionPc EXCEPT ![s] = IF saved THEN "done" ELSE "error"]
    /\ UNCHANGED <<riskVars, ctx, overlap, pureVars, sessionUser, criticalPc>>

(***************************************************************************)
(* Environment: the wall clock and the admin handler                       *)
(***************************************************************************)
Tick ==
    /\ now < StartTime + MaxElapsed
    /\ now' = now + 1
    /\ UNCHANGED <<extraVars, store, engineVars, callVars, adminVars, historyVars, levelVars,
                   versionVars, snapshotVars, persistVars>>

\* a plausible slip: the rule is inserted and the cache is left as it is
AdminCreateRuleNoInvalidate(r) ==
    /\ adminPc = "idle"
    /\ adminOps < MaxAdminOps
    /\ r \notin store
    /\ store' = store \cup {r}
    /\ storeLog' = Append(storeLog, store')
    /\ adminOps' = adminOps + 1
    /\ adminPc' = "idle"
    /\ UNCHANGED <<extraVars, now, engineVars, callVars, historyVars, levelVars,
                   seen, snapshotVars, persistVars>>

\* CreateRiskRule lines 57-60: the rule is inserted
AdminCreateRule(r) ==
    /\ adminPc = "idle"
    /\ adminOps < MaxAdminOps
    /\ r \notin store
    /\ store' = store \cup {r}
    /\ storeLog' = Append(storeLog, store')
    /\ adminOps' = adminOps + 1
    /\ adminPc' = "invalidate"
    /\ UNCHANGED <<extraVars, now, engineVars, callVars, historyVars, levelVars,
                   seen, snapshotVars, persistVars>>

\* the request of an UpdateRiskRule that switches the rule off
Deactivated(r) == [r EXCEPT !.IsActive = FALSE]

\* UpdateRiskRule lines 76-92: Save(rule) replaces the row with the rule's id
AdminUpdateRule(r, u) ==
    /\ adminPc = "idle"
    /\ adminOps < MaxAdminOps
    /\ r \in store
    /\ u.ID = r.ID
    /\ store' = (store \ {r}) \cup {u}
    /\ storeLog' = Append(storeLog, store')
    /\ adminOps' = adminOps + 1
    /\ adminPc' = "invalidate"
    /\ UNCHANGED <<extraVars, now, engineVars, callVars, historyVars, levelVars,
                   seen, snapshotVars, persistVars>>

\* DeleteRiskRule lines 138-141: the rule is deleted
AdminDeleteRule(r) ==
    /\ adminPc = "idle"
    /\ adminOps < MaxAdminOps
    /\ r \in store
    /\ store' = store \ {r}
    /\ storeLog' = Append(storeLog, store')
    /\ adminOps' = adminOps + 1
    /\ adminPc' = "invalidate"
    /\ UNCHANGED <<extraVars, now, engineVars, callVars, historyVars, levelVars,
                   seen, snapshotVars, persistVars>>

\* a plausible slip: the timestamp is left as it is
InvalidateCacheNoReset ==
    /\ adminPc = "invalidate"
    /\ cacheMutex = 0
    /\ cacheTime' = cacheTime
    /\ invalidated' = TRUE
    /\ priorCacheTime' = cacheTime
    /\ adminPc' = "idle"
    /\ UNCHANGED <<extraVars, now, store, ruleCache, cacheMutex, callVars, adminOps, passes,
                   levelVars,
                   versionVars, snapshotVars, persistVars>>

\* a plausible slip: the timestamp is reset without taking the write lock
InvalidateCacheNoLock ==
    /\ adminPc = "invalidate"
    /\ cacheTime' = ZeroTime
    /\ invalidated' = TRUE
    /\ priorCacheTime' = cacheTime
    /\ adminPc' = "idle"
    /\ UNCHANGED <<extraVars, now, store, ruleCache, cacheMutex, callVars, adminOps, passes,
                   levelVars,
                   versionVars, snapshotVars, persistVars>>

\* a plausible slip: the cached rules are dropped together with the timestamp
InvalidateCacheClearing ==
    /\ adminPc = "invalidate"
    /\ cacheMutex = 0
    /\ cacheTime' = ZeroTime
    /\ ruleCache' = EmptyMap
    /\ invalidated' = TRUE
    /\ priorCacheTime' = cacheTime
    /\ adminPc' = "idle"
    /\ UNCHANGED <<extraVars, now, store, cacheMutex, callVars, adminOps, passes,
                   levelVars,
                   versionVars, snapshotVars, persistVars>>

\* InvalidateCache, called at admin.go lines 63, 94, 143: under the write lock
\* cacheTime = time.Time{}
InvalidateCache ==
    /\ adminPc = "invalidate"
    /\ cacheMutex = 0
    /\ cacheTime' = ZeroTime
    /\ invalidated' = TRUE
    /\ priorCacheTime' = cacheTime
    /\ adminPc' = "idle"
    /\ UNCHANGED <<extraVars, now, store, ruleCache, cacheMutex, callVars, adminOps, passes,
                   levelVars,
                   versionVars, snapshotVars, persistVars>>

(***************************************************************************)
(* GetCachedRules and a caller of it outside the engine.  copy(result,     *)
(* rules) copies the RiskRule structs: the slice and its elements are the  *)
(* caller's, the time.Time behind each ExpiresAt pointer is shared.        *)
(***************************************************************************)
\* GetCachedRules lines 379-390, under the read lock
GetCachedRules(category) ==
    /\ cacheMutex = 0
    /\ snapshot' = [category |-> category, rules |-> MapGet(ruleCache, category)]
    /\ UNCHANGED <<extraVars, now, store, engineVars, callVars, adminVars, historyVars, levelVars,
                   versionVars, heap, persistVars>>

\* the caller overwrites an element of its slice: rules[i] = rule
CallerOverwrites(i, rule) ==
    /\ i \in DOMAIN snapshot.rules
    /\ snapshot' = [snapshot EXCEPT !.rules[i] = rule]
    /\ UNCHANGED <<extraVars, now, store, engineVars, callVars, adminVars, historyVars, levelVars,
                   versionVars, heap, persistVars>>

\* the caller removes the first element: rules = rules[1:]
CallerRemoves ==
    /\ snapshot.rules # <<>>
    /\ snapshot' = [snapshot EXCEPT !.rules = Tail(@)]
    /\ UNCHANGED <<extraVars, now, store, engineVars, callVars, adminVars, historyVars, levelVars,
                   versionVars, heap, persistVars>>

\* the caller appends: rules = append(rules, rule)
CallerAppends(rule) ==
    /\ snapshot.category # ""
    /\ Len(snapshot.rules) < MaxSnapshotLen
    /\ snapshot' = [snapshot EXCEPT !.rules = Append(@, rule)]
    /\ UNCHANGED <<extraVars, now, store, engineVars, callVars, adminVars, historyVars, levelVars,
                   versionVars, heap, persistVars>>

\* the caller writes through the pointer of a returned rule: *rules[i].ExpiresAt = t
CallerSetsExpiry(i, t) ==
    /\ i \in DOMAIN snapshot.rules
    /\ snapshot.rules[i].ExpiresAt # NoExpiry
    /\ heap' = [heap EXCEPT ![snapshot.rules[i].ExpiresAt] = t]
    /\ UNCHANGED <<extraVars, now, store, engineVars, callVars, adminVars, historyVars, levelVars,
                   versionVars, snapshot, persistVars>>

\* everything the caller does to the returned value
CallerMutates ==
    \/ \E i \in 1..MaxSnapshotLen : CallerOverwrites(i, P1)
    \/ CallerRemoves
    \/ CallerAppends(P1)
    \/ \E i \in 1..MaxSnapshotLen : \E t \in StartTime..(StartTime + MaxElapsed) :
          CallerSetsExpiry(i, t)

(***************************************************************************)
(* Specifications                                                          *)
(***************************************************************************)
CheckRisk(p) ==
    \/ TestStaleness(p)
    \/ LockCache(p)
    \/ LoadRules(p)
    \/ LoadFails(p)
    \/ StoreCache(p)
    \/ CheckEmail(p)
    \/ CheckName(p)
    \/ CheckPhone(p)
    \/ AssembleResult(p)
    \/ HandlerSpawns(p)
    \/ HandlerReturns(p)

\* concurrent callers, the clock and the admin handler
Next ==
    \/ \E p \in Callers : CheckRiskStart(p, SuspiciousRequest)
    \/ \E p \in Callers : CheckRisk(p)
    \/ Tick
    \/ \E r \in AdminPool : AdminCreateRule(r)
    \/ \E r \in InitialStore : AdminDeleteRule(r)
    \/ \E r \in UpdatePool : AdminUpdateRule(r, Deactivated(r))
    \/ InvalidateCache

Spec == Init /\ [][Next]_vars

\* one caller, any Rule Store content of the pool, any request
InitEval ==
    /\ InitEngine
    /\ InitCalls
    /\ store \in SUBSET RulePool
    /\ storeLog = <<store>>
    /\ arg = NoArg
    /\ ret = NoRet
    /\ totalScore = 0
    /\ level = NoLevel

NextEval ==
    \/ \E r \in Requests : CheckRiskStart(1, r)
    \/ CheckRisk(1)

SpecEval == InitEval /\ [][NextEval]_vars

\* concurrent callers and the clock, on a Rule Store with a temporary rule
ExpiringStore == {E6, N1}

InitExpiry ==
    /\ InitEngine
    /\ InitCalls
    /\ store = ExpiringStore
    /\ storeLog = <<store>>
    /\ arg = NoArg
    /\ ret = NoRet
    /\ totalScore = 0
    /\ level = NoLevel

NextExpiry ==
    \/ \E p \in Callers : CheckRiskStart(p, SuspiciousRequest)
    \/ \E p \in Callers : CheckRisk(p)
    \/ Tick

SpecExpiry == InitExpiry /\ [][NextExpiry]_vars

\* one check fills the cache from a Rule Store with a temporary rule; an
\* outside caller takes snapshots of the cache and modifies them
NextSnapshot ==
    \/ CheckRiskStart(1, SuspiciousRequest)
    \/ CheckRisk(1)
    \/ \E c \in CategorySet : GetCachedRules(c)
    \/ CallerMutates

SpecSnapshot == InitExpiry /\ [][NextSnapshot]_vars

\* a request that matches no rule of the initial Rule Store
CleanRequest == Request("u2", <<"o","k","@","y",".","o","r","g">>, <<>>, <<>>, <<>>)
PersistRequests == {SuspiciousRequest, CleanRequest}

\* concurrent callers and their background StoreRiskResult goroutines
NextPersist ==
    \/ \E p \in Callers : \E r \in PersistRequests : CheckRiskStart(p, r)
    \/ \E p \in Callers : CheckRisk(p)
    \/ \E p \in Callers : StoreRiskResult(p)

SpecPersist == Init /\ [][NextPersist]_vars

\* one caller, any request, any Rule Store content of the permissive pool
InitEmptyInput ==
    /\ InitEngine
    /\ InitCalls
    /\ store \in SUBSET PermissivePool
    /\ storeLog = <<store>>
    /\ arg = NoArg
    /\ ret = NoRet
    /\ totalScore = 0
    /\ level = NoLevel

SpecEmptyInput == InitEmptyInput /\ [][NextEval]_vars

\* concurrent callers and the clock, on a Rule Store whose EMAIL and NAME
\* rules are both temporary: every load pass allocates its own rules
InitPasses ==
    /\ InitEngine
    /\ InitCalls
    /\ store = {E6, N6}
    /\ storeLog = <<store>>
    /\ arg = NoArg
    /\ ret = NoRet
    /\ totalScore = 0
    /\ level = NoLevel

SpecPasses == InitPasses /\ [][NextExpiry]_vars

\* calculateRiskLevel applied to any total
InitLevel ==
    /\ InitEngine
    /\ InitCalls
    /\ store = InitialStore
    /\ storeLog = <<store>>
    /\ arg = NoArg
    /\ ret = NoRet
    /\ totalScore \in (0 - MaxTotal)..MaxTotal
    /\ level = NoLevel

Classify ==
    /\ level = NoLevel
    /\ level' = calculateRiskLevel(totalScore)
    /\ UNCHANGED <<extraVars, now, store, engineVars, callVars, adminVars, historyVars, totalScore,
                   versionVars, snapshotVars, persistVars>>

SpecLevel == InitLevel /\ [][Classify]_vars

\* concurrent callers whose request contexts may be cancelled
NextCancel ==
    \/ \E p \in Callers : CheckRiskStart(p, SuspiciousRequest)
    \/ \E p \in Callers : CheckRisk(p)
    \/ \E p \in Callers : CancelContext(p)

SpecCancel == Init /\ [][NextCancel]_vars

\* concurrent callers, the admin handler and a reader of the cache, with
\* the clock standing still: the cache expires by invalidation only
NextAdmin ==
    \/ \E p \in Callers : CheckRiskStart(p, SuspiciousRequest)
    \/ \E p \in Callers : CheckRisk(p)
    \/ \E r \in AdminPool : AdminCreateRule(r)
    \/ \E r \in InitialStore : AdminDeleteRule(r)
    \/ \E r \in UpdatePool : AdminUpdateRule(r, Deactivated(r))
    \/ InvalidateCache
    \/ \E c \in CategorySet : GetCachedRules(c)

SpecAdmin == Init /\ [][NextAdmin]_vars

\* a DOMAIN_BLACKLIST rule of any value against any address
InitDomain ==
    /\ InitEngine
    /\ InitCalls
    /\ store = {}
    /\ storeLog = <<store>>
    /\ totalScore = 0
    /\ level = NoLevel
    /\ arg \in [email : DomainEmails, value : DomainValues]
    /\ ret = NoRet

SpecDomain == InitDomain /\ [][CheckDomainRule]_vars

\* a PREFIX_BLACKLIST rule of any value against any phone number
InitPhone ==
    /\ InitEngine
    /\ InitCalls
    /\ store = {}
    /\ storeLog = <<store>>
    /\ totalScore = 0
    /\ level = NoLevel
    /\ arg \in [phone : PrefixPhones, value : PhoneValues]
    /\ ret = NoRet

SpecPhone == InitPhone /\ [][CheckPrefixRule]_vars

\* concurrent callers, an admin mutation with its invalidation and a reader
\* of the cache, on a Rule Store of PHONE rules.  Every call that can take
\* a step eventually takes one: the goroutines are scheduled, a Rule Store
\* query returns with rules or with an error, and a free lock is eventually
\* given to a goroutine waiting for it.
LiveStore == {P1}
LivePool == {P4}
LiveRequest == Request("u3", <<"o","k","@","y">>, <<>>, <<>>, <<"1","5","5","5","-","0">>)

InitLive ==
    /\ InitEngine
    /\ InitCalls
    /\ store = LiveStore
    /\ storeLog = <<store>>
    /\ totalScore = 0
    /\ level = NoLevel
    /\ arg = NoArg
    /\ ret = NoRet

NextLive ==
    \/ \E p \in Callers : CheckRiskStart(p, LiveRequest)
    \/ \E p \in Callers : CheckRisk(p)
    \/ \E r \in LivePool : AdminCreateRule(r)
    \/ InvalidateCache
    \/ GetCachedRules("PHONE")

Fairness ==
    /\ \A p \in Callers : WF_vars(CheckRisk(p))
    /\ WF_vars(InvalidateCache)

SpecLive == InitLive /\ [][NextLive]_vars /\ Fairness

\* the deactivation of a CRITICAL user racing Login and UpdateUser calls
NextUser ==
    \/ HandleCriticalRisk
    \/ HandleCriticalRiskFails
    \/ \E s \in Sessions, passwordOk \in BOOLEAN : LoginReads(s, passwordOk)
    \/ \E s \in Sessions, saved \in BOOLEAN : LoginSaves(s, saved)
    \/ \E s \in Sessions, firstName \in FirstNames : UpdateUserReads(s, firstName)
    \/ \E s \in Sessions, saved \in BOOLEAN : UpdateUserSaves(s, saved)

SpecUser == Init /\ [][NextUser]_vars

(***************************************************************************)
(* Properties                                                              *)
(***************************************************************************)
RECURSIVE SumScoreAdded(_)
SumScoreAdded(entries) ==
    IF entries = <<>> THEN 0 ELSE Head(entries).ScoreAdded + SumScoreAdded(Tail(entries))

\* CheckRisk has returned its result with a nil error
Returned(p) == pc[p] \in {"returned", "done"}

\* the call is past its cache refresh and evaluates, or has evaluated, rules
Evaluating(p) == pc[p] \in {"email", "name", "phone", "assemble", "returned", "done"}

\* C1: when the cache is stale and several CheckRisk calls overlap, the Rule
\* Store is reloaded once: a call that gets the write lock after another call
\* has refreshed finds the cache fresh and does not load.  In the model: no
\* call is ever loading from the Rule Store while the cache is fresh.
C1_NoDuplicateReload ==
    \A p \in Callers : pc[p] \in {"load", "commit"} => CacheExpired(now, cacheTime)

\* C2: a CheckRisk call that tests staleness after InvalidateCache has
\* returned (and before any refresh completed) loads all three categories
\* from the Rule Store before it evaluates any rule, whatever the clock says.
C2_InvalidateForcesReload ==
    \A p \in Callers :
        (sawInvalidated[p] /\ Evaluating(p)) =>
            /\ cacheExpired[p]
            /\ DOMAIN newCache[p] = CategorySet

\* the call reloaded after an invalidation although the refresh that the
\* invalidation wiped out was younger than the TTL
C2_Witness ==
    \E p \in Callers :
        /\ sawInvalidated[p]
        /\ pc[p] = "email"
        /\ DOMAIN newCache[p] = CategorySet
        /\ priorCacheTime # ZeroTime
        /\ now - priorCacheTime < CacheTTL

\* C3: no step of a refresh attempt that has not stored its result, the
\* failing step included, changes the cached rule lists or the timestamp.
C3_FailedRefreshKeepsCache ==
    [][\A p \in Callers :
          (pc[p] \in {"lock", "load"} /\ pc'[p] \in {"load", "failed"}) =>
              (ruleCache' = ruleCache /\ cacheTime' = cacheTime)]_vars

\* a refresh failed after its EMAIL load had succeeded with rules other than
\* the cached ones, and the cache still holds its last good snapshot
C3_Witness ==
    \E p \in Callers :
        /\ pc[p] = "failed"
        /\ "EMAIL" \in DOMAIN newCache[p]
        /\ ruleCache # EmptyMap
        /\ newCache[p]["EMAIL"] # ruleCache["EMAIL"]

\* C4: a call whose refresh failed evaluates no rule and the handler returns
\* (nil, err); a call that returns a verdict returns the assembled result
\* with no error, and if it found the cache stale it loaded all categories.
C4_VerdictOrHardFailure ==
    \A p \in Callers :
        /\ pc[p] \in {"failed", "error"} => rules[p] = EmptyMap
        /\ pc[p] = "error" => reply[p] = [response |-> NilResponse, err |-> TRUE]
        /\ pc[p] = "done" =>
              /\ reply[p] = [response |-> ResponseOf(result[p]), err |-> FALSE]
              /\ cacheExpired[p] => DOMAIN newCache[p] = CategorySet

\* a call failed while the cache held a stale snapshot it could have used
C4_Witness ==
    \E p \in Callers :
        /\ pc[p] = "error"
        /\ ruleCache # EmptyMap
        /\ CacheExpired(now, cacheTime)

\* C5: the cache is the empty map of NewRiskEngine or the three lists of one
\* completed load pass, in every state.
C5_CacheIsOnePass ==
    \/ ruleCache = EmptyMap
    \/ (DOMAIN ruleCache = CategorySet /\ ruleCache \in passes)

\* a refresh in progress has loaded EMAIL rules other than the cached ones
\* and the cache is still the whole snapshot of an earlier pass
C5_Witness ==
    /\ ruleCache \in passes
    /\ \E p \in Callers :
          /\ pc[p] = "load"
          /\ "EMAIL" \in DOMAIN newCache[p]
          /\ newCache[p]["EMAIL"] # ruleCache["EMAIL"]

\* C6: TotalScore of a returned result is the sum of ScoreAdded over its
\* MatchedRules.
C6_TotalIsSumOfAudit ==
    \A p \in Callers :
        Returned(p) => result[p].TotalScore = SumScoreAdded(result[p].MatchedRules)

\* a result with two or more audit entries, one of them scaled down by its
\* confidence
C6_Witness ==
    \E p \in Callers :
        /\ pc[p] = "done"
        /\ Len(result[p].MatchedRules) >= 2
        /\ \E i \in DOMAIN matchedRules[p] :
              result[p].MatchedRules[i].ScoreAdded < matchedRules[p][i].Score

Rank(riskLevel) ==
    CASE riskLevel = "MINIMAL" -> 0
      [] riskLevel = "LOW" -> 1
      [] riskLevel = "MEDIUM" -> 2
      [] riskLevel = "HIGH" -> 3
      [] riskLevel = "CRITICAL" -> 4

\* C7: CRITICAL/risky from 100, HIGH/risky for 80..99, MEDIUM/risky for
\* 40..79, LOW/not risky for 20..39, MINIMAL/not risky below 20; the level
\* does not decrease as the score grows; risky iff MEDIUM, HIGH or CRITICAL.
C7_RiskLevelSteps ==
    level # NoLevel =>
        /\ totalScore >= 100 => level = Level("CRITICAL", TRUE)
        /\ (80 <= totalScore /\ totalScore <= 99) => level = Level("HIGH", TRUE)
        /\ (40 <= totalScore /\ totalScore <= 79) => level = Level("MEDIUM", TRUE)
        /\ (20 <= totalScore /\ totalScore <= 39) => level = Level("LOW", FALSE)
        /\ totalScore < 20 => level = Level("MINIMAL", FALSE)
        /\ level.IsRisky <=> level.RiskLevel \in {"MEDIUM", "HIGH", "CRITICAL"}
        /\ \A t \in (0 - MaxTotal)..totalScore :
              Rank(calculateRiskLevel(t).RiskLevel) <= Rank(level.RiskLevel)

\* the lowest risky score has been classified
C7_Witness == totalScore = 40 /\ level = Level("MEDIUM", TRUE)

\* floor(score * confidence), confidence in hundredths, for score >= 0
Floor(score, confidence) ==
    CHOOSE n \in 0..score : n * 100 <= score * confidence /\ score * confidence < (n + 1) * 100

\* the rule matches the request (it evaluates without error, to true)
Matches(rule, r) ==
    LET firstNameLower == ToLower(TrimSpace(r.FirstName))
        lastNameLower == ToLower(TrimSpace(r.LastName))
        ev == CASE rule.Category = "EMAIL" ->
                      evaluateEmailRule(rule, ToLower(TrimSpace(r.Email)))
                [] rule.Category = "NAME" ->
                      evaluateNameRule(rule, firstNameLower, lastNameLower,
                                       FullName(firstNameLower, lastNameLower))
                [] rule.Category = "PHONE" ->
                      evaluatePhoneRule(rule, normalizePhoneNumber(r.Phone))
    IN  ~ev.err /\ ev.matched

\* the rules of the call's three copies, as a set
Evaluated(p) == UNION {{rules[p][c][i] : i \in DOMAIN rules[p][c]} : c \in DOMAIN rules[p]}

RECURSIVE SumFloor(_)
SumFloor(S) ==
    IF S = {} THEN 0
    ELSE LET r == CHOOSE x \in S : TRUE
         IN  Floor(r.Score, r.Confidence) + SumFloor(S \ {r})

FailsToEvaluate(rule) ==
    \/ rule.Type = "PATTERN_MATCH" /\ RegexpInvalid(rule.Value)
    \/ rule.Category = "EMAIL" /\
          rule.Type \notin {"EMAIL_BLACKLIST", "PATTERN_MATCH", "DOMAIN_BLACKLIST", "CONTAINS"}
    \/ rule.Category = "NAME" /\
          rule.Type \notin {"NAME_BLACKLIST", "PATTERN_MATCH", "CONTAINS",
                            "FIRST_NAME_BLACKLIST", "LAST_NAME_BLACKLIST"}
    \/ rule.Category = "PHONE" /\
          rule.Type \notin {"PHONE_BLACKLIST", "PATTERN_MATCH", "PREFIX_BLACKLIST"}

\* the rules of one copy that match, in the copy's order
MatchingOf(p, c) == SelectSeq(MapGet(rules[p], c), LAMBDA r : Matches(r, req[p]))

\* C9: a rule that fails to evaluate adds no audit entry, flag or score, and
\* every rule that matches, before or after it and in any category, is in
\* the result; the call returns a verdict.
C9_FailingRuleIsSkipped ==
    \A p \in Callers :
        Returned(p) =>
            /\ matchedRules[p] =
                  MatchingOf(p, "EMAIL") \o MatchingOf(p, "NAME") \o MatchingOf(p, "PHONE")
            /\ \A i \in DOMAIN matchedRules[p] : ~FailsToEvaluate(matchedRules[p][i])
            /\ Len(result[p].Flags) = Len(matchedRules[p])
            /\ Len(result[p].MatchedRules) = Len(matchedRules[p])
            /\ result[p].TotalScore = SumScoreAdded(result[p].MatchedRules)
            /\ DOMAIN rules[p] = CategorySet
            /\ pc[p] = "done" => ~reply[p].err

Position(sq, x) == CHOOSE i \in DOMAIN sq : sq[i] = x
Has(sq, x) == \E i \in DOMAIN sq : sq[i] = x

\* a malformed EMAIL pattern and an unknown PHONE type were evaluated before
\* rules of their categories that matched, and a NAME rule matched too
C9_Witness ==
    \E p \in Callers :
        /\ pc[p] = "done"
        /\ Has(rules[p]["EMAIL"], E4) /\ Has(rules[p]["EMAIL"], E5)
        /\ Position(rules[p]["EMAIL"], E4) < Position(rules[p]["EMAIL"], E5)
        /\ Has(rules[p]["PHONE"], P2) /\ Has(rules[p]["PHONE"], P1)
        /\ Position(rules[p]["PHONE"], P2) < Position(rules[p]["PHONE"], P1)
        /\ Has(matchedRules[p], E5) /\ Has(matchedRules[p], N1) /\ Has(matchedRules[p], P1)

\* the call evaluated `email` against exactly one rule, the EMAIL rule `rule`
OnlyRule(p, rule, email) ==
    /\ pc[p] = "done"
    /\ rules[p] = [c \in CategorySet |-> IF c = "EMAIL" THEN <<rule>> ELSE <<>>]
    /\ req[p].Email = email

LiveInStore(rule, t) ==
    \E row \in store :
        /\ row.ID = rule.ID
        /\ row.IsActive
        /\ (row.ExpiresAt = NoExpiry \/ row.ExpiresAt[1] > t)

\* C11: a rule adds score, a flag and an audit entry to an evaluation only if
\* it is active and not expired at the time of that evaluation: every rule
\* that an evaluation step appends to the matched rules is live at that time.
C11_OnlyLiveRulesContribute ==
    [][\A p \in Callers :
          (pc[p] \in {"email", "name", "phone"} /\ pc'[p] # pc[p]) =>
              \A i \in (Len(matchedRules[p]) + 1)..Len(matchedRules'[p]) :
                  LiveInStore(matchedRules'[p][i], now)]_vars

\* the ids of a list of rules, and of the rows a load of category c returns
IDs(list) == {list[i].ID : i \in DOMAIN list}
LoadableIDs(rows, c) == {row.ID : row \in ActiveRules(rows, c, now)}

\* C12: a CheckRisk that starts after a CreateRiskRule, UpdateRiskRule or
\* DeleteRiskRule has returned evaluates, in every category, a rule list that
\* was loaded from the Rule Store as it was after that mutation (or a later
\* one), under every interleaving with other checks and refreshes.
C12_ChecksSeeReturnedMutations ==
    \A p \in Callers :
        \A c \in DOMAIN rules[p] :
            \E v \in seen[p]..adminOps :
                IDs(rules[p][c]) = LoadableIDs(storeLog[v + 1], c)

\* a call that started after the admin handler had returned evaluated the
\* mutated rule set although the cache it found was younger than the TTL
C12_Witness ==
    \E p \in Callers :
        /\ pc[p] = "done"
        /\ seen[p] >= 1
        /\ priorCacheTime # ZeroTime
        /\ now - priorCacheTime < CacheTTL
        /\ IDs(rules[p]["EMAIL"]) # LoadableIDs(storeLog[1], "EMAIL")

\* C13: after the hand-off to the background goroutine no field of the result,
\* nor of an element of its Flags and MatchedRules, is written: StoreRiskResult
\* writes nothing to the result, in particular not while the handler reads it.
C13_ResultNotWrittenAfterHandOff == \A p \in Callers : written[p] = {}

\* the response the handler owes the caller, from the locals of CheckRisk
ExpectedResponse(p) ==
    [UserId |-> req[p].UserId,
     IsRisky |-> calculateRiskLevel(result[p].TotalScore).IsRisky,
     RiskLevel |-> calculateRiskLevel(result[p].TotalScore).RiskLevel,
     Reason |-> IF matchedRules[p] = <<>> THEN "No risk factors detected"
                ELSE Join([i \in DOMAIN matchedRules[p] |-> ReasonOf(matchedRules[p][i])], "; "),
     Flags |-> flagStrings[p]]

\* C14: once CheckRisk has produced a verdict, the handler returns the
\* successful response built from it and no error, wherever the background
\* StoreRiskResult is and however it ends, and it can return at any moment
\* without waiting for the store.
C14_VerdictIndependentOfStore ==
    \A p \in Callers :
        /\ (storePc[p] # "none" /\ pc[p] \in {"done", "error"}) =>
              reply[p] = [response |-> ExpectedResponse(p), err |-> FALSE]
        /\ pc[p] = "respond" => ENABLED HandlerReturns(p)

\* the handler answered a risky verdict with success although the store failed
C14_Witness ==
    \E p \in Callers :
        /\ pc[p] = "done"
        /\ storePc[p] = "failed"
        /\ reply[p].response.IsRisky
        /\ ~reply[p].err

\* the rows of the call in the result tables, and the rows a complete store has
RowsOf(p) == {row \in db : row.CheckID = result[p].CheckID}
AllRowsOf(p) ==
    {[table |-> "risk_check_results", CheckID |-> result[p].CheckID,
      UserID |-> req[p].UserId, IsRisky |-> ExpectedResponse(p).IsRisky,
      RiskLevel |-> ExpectedResponse(p).RiskLevel,
      TotalScore |-> result[p].TotalScore, Reason |-> ExpectedResponse(p).Reason]}
    \cup {[table |-> "risk_check_flags", n |-> i, CheckID |-> result[p].CheckID,
            Flag |-> flagStrings[p][i]] : i \in DOMAIN flagStrings[p]}
    \cup {[table |-> "risk_check_rule_matches", n |-> i, CheckID |-> result[p].CheckID,
            RuleID |-> matchedRules[p][i].ID, RuleName |-> matchedRules[p][i].Name,
            ScoreAdded |-> Floor(matchedRules[p][i].Score, matchedRules[p][i].Confidence)]
              : i \in DOMAIN matchedRules[p]}

\* C15: after StoreRiskResult has returned, with success or with an error at
\* any of its steps, the tables hold the parent row with all flag rows and all
\* rule-match rows of the result, or no row of it.
C15_StoreIsAllOrNothing ==
    \A p \in Callers :
        /\ storePc[p] = "stored" => RowsOf(p) = AllRowsOf(p)
        /\ storePc[p] = "failed" => RowsOf(p) = {}
        /\ storePc[p] \in {"begin", "create", "flags", "matches", "commit"} => RowsOf(p) = {}

\* one store failed at or after the insert of its rule matches and left no
\* row, while the store of the other call is complete
C15_Witness ==
    \E p, q \in Callers :
        /\ storePc[p] = "failed"
        /\ \E w \in written[p] : w.field = "MatchedRules[i].CheckID"
        /\ RowsOf(p) = {}
        /\ storePc[q] = "stored"
        /\ Cardinality(RowsOf(q)) >= 5

\* a rule as a reader sees it: ExpiresAt followed to the time it points to
Deref(rule) ==
    IF rule.ExpiresAt = NoExpiry THEN rule
    ELSE [rule EXCEPT !.ExpiresAt = ExpiresAtTime(heap[rule.ExpiresAt])]

\* the cache's rules as a later GetCachedRules call or check reads them
CacheView ==
    [c \in DOMAIN ruleCache |-> [i \in DOMAIN ruleCache[c] |-> Deref(ruleCache[c][i])]]

\* C16: nothing a caller does to the value returned by GetCachedRules changes
\* what later GetCachedRules calls and checks read from the cache: a step of
\* the caller on its slice, its elements or anything reachable from them
\* leaves the cache's rules, as read through their pointers, as they were.
C16_SnapshotIsDefensive ==
    [][CallerMutates => CacheView' = CacheView]_vars

\* the call matched a rule of the category
MatchedIn(p, category) ==
    \E i \in DOMAIN matchedRules[p] : matchedRules[p][i].Category = category

\* C17: for an empty phone no PHONE rule matches and for empty first and last
\* names no NAME rule matches, whatever the rules' types and values.
C17_EmptyInputsMatchNothing ==
    \A p \in Callers :
        Returned(p) =>
            /\ req[p].Phone = <<>> => ~MatchedIn(p, "PHONE")
            /\ (req[p].FirstName = <<>> /\ req[p].LastName = <<>>) => ~MatchedIn(p, "NAME")

\* the flag strings of a result, in order
FlagSequence(res) == [i \in DOMAIN res.Flags |-> res.Flags[i].Flag]

ReasonEntry(rule) ==
    rule.Name \o " (score: " \o Itoa(Floor(rule.Score, rule.Confidence)) \o ")"

\* the entries of a non-empty list of rules, joined by "; "
RECURSIVE ReasonEntries(_)
ReasonEntries(list) ==
    IF Len(list) = 1 THEN ReasonEntry(list[1])
    ELSE ReasonEntry(list[1]) \o "; " \o ReasonEntries(Tail(list))

\* the rules that match, EMAIL first, then NAME, then PHONE, each category in
\* the order of the list the call copied from the cache
MatchingInOrder(p) ==
    MatchingOf(p, "EMAIL") \o MatchingOf(p, "NAME") \o MatchingOf(p, "PHONE")

\* C19: the reason has one entry "{rule.name} (score: {adjustedScore})" per
\* matched rule, joined by "; ", EMAIL matches first, then NAME, then PHONE,
\* within a category in the cache's list order; the flags and the audit
\* entries are in the same order.
C19_ReasonFlagsAuditInOrder ==
    \A p \in Callers :
        Returned(p) =>
            LET ms == MatchingInOrder(p)
            IN  /\ ms # <<>> => result[p].Reason = ReasonEntries(ms)
                /\ FlagSequence(result[p]) =
                      [i \in DOMAIN ms |-> ms[i].Category \o "_" \o ms[i].Type]
                /\ [i \in DOMAIN result[p].MatchedRules |-> result[p].MatchedRules[i].RuleID] =
                      [i \in DOMAIN ms |-> ms[i].ID]
                /\ \A i \in DOMAIN result[p].MatchedRules :
                      /\ result[p].MatchedRules[i].RuleName = ms[i].Name
                      /\ result[p].MatchedRules[i].ScoreAdded = Floor(ms[i].Score, ms[i].Confidence)

\* two EMAIL rules, a NAME rule and a PHONE rule matched
C19_Witness ==
    \E p \in Callers :
        /\ pc[p] = "done"
        /\ reply[p].response.Reason =
              "Known bad address (score: 100); Bad local part (score: 15); Blocked name (score: 40); Blocked prefix (score: 20)"
        /\ reply[p].response.Flags =
              <<"EMAIL_EMAIL_BLACKLIST", "EMAIL_PATTERN_MATCH", "NAME_NAME_BLACKLIST", "PHONE_PREFIX_BLACKLIST">>

\* C20: when no cached rule of any category matches the input, the result
\* has total 0, level MINIMAL, isRisky false, reason "No risk factors
\* detected", no flags and no audit entries.
C20_NoMatchGivesDefaults ==
    \A p \in Callers :
        (Returned(p) /\ \A r \in Evaluated(p) : ~Matches(r, req[p])) =>
            /\ result[p].TotalScore = 0
            /\ result[p].RiskLevel = "MINIMAL"
            /\ result[p].IsRisky = FALSE
            /\ result[p].Reason = "No risk factors detected"
            /\ result[p].Flags = <<>>
            /\ result[p].MatchedRules = <<>>
            /\ pc[p] = "done" =>
                  reply[p] = [response |-> [UserId |-> req[p].UserId, IsRisky |-> FALSE,
                                            RiskLevel |-> "MINIMAL",
                                            Reason |-> "No risk factors detected",
                                            Flags |-> <<>>],
                              err |-> FALSE]

\* a call evaluated rules of all three categories and none matched
C20_Witness ==
    \E p \in Callers :
        /\ pc[p] = "done"
        /\ \A c \in CategorySet : rules[p][c] # <<>>
        /\ \A r \in Evaluated(p) : ~Matches(r, req[p])
        /\ result[p].Reason = "No risk factors detected"

\* the call is about to copy a category's rules under the read lock
Copying(p) == pc[p] \in {"email", "name", "phone"}

\* C21: the write lock is not held while the Rule Store is queried, so the
\* snapshot copy of a concurrent check can always be taken while another
\* caller's load is in progress.
C21_CopyNotBlockedByLoad ==
    \A p, q \in Callers :
        (Copying(p) /\ pc[q] = "load") =>
            ENABLED (CheckEmail(p) \/ CheckName(p) \/ CheckPhone(p))

\* C22: the EMAIL, NAME and PHONE lists that one CheckRisk call evaluates are
\* the three lists of one load pass.
C22_OneSnapshotPerCheck ==
    \A p \in Callers : DOMAIN rules[p] = CategorySet => rules[p] \in passes

\* C23: a CheckRisk whose request context is cancelled before it has done
\* anything or while it refreshes the cache (waiting for the lock or loading
\* rules from the Rule Store) aborts with an error: it never completes the
\* evaluation and returns a verdict.
C23_CancelledCallAborts ==
    \A p \in Callers :
        ctx[p] \in {"refresh", "lock", "load"} =>
            pc[p] \notin {"returned", "respond", "done"}

\* the admin handler has mutated the Rule Store and its InvalidateCache has returned
Invalidation == adminPc = "idle" /\ adminOps > 0

\* the rules of every category of the map are the ones a load returns now
LoadedFromStore(m) ==
    \A c \in CategorySet : IDs(MapGet(m, c)) = LoadableIDs(store, c)

\* C24: an InvalidateCache that overlaps a refresh is not lost.  Once it has
\* returned, the cache is marked expired or holds rules loaded from the Rule
\* Store as it was when the invalidation was requested; and a refresh that
\* is about to stamp the cache as fresh holds such rules.
C24_InvalidationNotLost ==
    Invalidation =>
        /\ cacheTime = ZeroTime \/ LoadedFromStore(ruleCache)
        /\ \A p \in Callers : pc[p] = "commit" => LoadedFromStore(newCache[p])

\* a refresh stored rules loaded before the mutation while InvalidateCache
\* was waiting for the lock; InvalidateCache then marked the cache expired
C24_Witness ==
    /\ Invalidation
    /\ overlap
    /\ ~LoadedFromStore(ruleCache)
    /\ cacheTime = ZeroTime

\* C25: InvalidateCache changes the last-refreshed timestamp only, to the zero
\* time: the cached rule lists of every category, and so what GetCachedRules
\* returns, are the same before and after it, and the Rule Store and the
\* rules loaded from it so far are as they were.
C25_InvalidateResetsTimestampOnly ==
    [][(adminPc = "invalidate" /\ adminPc' = "idle") =>
          /\ cacheTime' = ZeroTime
          /\ \A c \in CategorySet : MapGet(ruleCache', c) = MapGet(ruleCache, c)
          /\ CacheView' = CacheView
          /\ store' = store
          /\ storeLog' = storeLog
          /\ heap' = heap
          /\ newCache' = newCache]_vars

\* a filled, fresh cache was invalidated: it is expired and still filled
C25_Witness ==
    /\ invalidated
    /\ priorCacheTime # ZeroTime
    /\ cacheTime = ZeroTime
    /\ MapGet(ruleCache, "NAME") # <<>>
    /\ snapshot.category = "NAME"
    /\ snapshot.rules = MapGet(ruleCache, "NAME")

\* the substring after the last at sign of an address that has one
AfterLastAt(email) ==
    LET last == CHOOSE i \in DOMAIN email :
                    email[i] = "@" /\ \A j \in (i + 1)..Len(email) : email[j] # "@"
    IN  SubSeq(email, last + 1, Len(email))

\* C26: for every address with at least one at sign, a DOMAIN_BLACKLIST rule
\* matches exactly when the substring after the last at sign equals the rule
\* value, letter case apart, whatever the local part is.
C26_DomainIsAfterLastAt ==
    ("email" \in DOMAIN arg /\ ret # NoRet /\ Count(arg.email, "@") >= 1) =>
        (ret.matched <=> EqualFold(AfterLastAt(arg.email), arg.value))

\* the characters normalization removes
Formatting == {" ", "-", "(", ")", "+", "."}
Unformatted(s) == SelectSeq(s, LAMBDA c : c \notin Formatting)

\* a is a prefix of b
IsPrefixOf(a, b) == Len(a) <= Len(b) /\ \A i \in DOMAIN a : a[i] = b[i]

\* C27: normalization removes every space, hyphen, parenthesis, plus sign and
\* period and nothing else, and a PREFIX_BLACKLIST rule matches exactly when
\* its normalized value is a prefix of the normalized phone; the phone
\* "+1 (555) 000-1234" becomes "15550001234" and the value "+1-555" matches it.
C27_PhoneNormalizedThenPrefix ==
    ("phone" \in DOMAIN arg /\ ret # NoRet) =>
        /\ ret.normalized = Unformatted(arg.phone)
        /\ ret.matched <=> IsPrefixOf(Unformatted(arg.value), Unformatted(arg.phone))
        /\ arg.phone = ExamplePhone =>
              ret.normalized = <<"1","5","5","5","0","0","0","1","2","3","4">>
        /\ (arg.phone = ExamplePhone /\ arg.value = <<"+","1","-","5","5","5">>) =>
              ret.matched

\* the example of the specification has been evaluated and matched
C27_Witness ==
    /\ "phone" \in DOMAIN arg
    /\ arg.phone = ExamplePhone
    /\ arg.value = <<"+","1","-","5","5","5">>
    /\ ret # NoRet
    /\ ret.matched

\* the Rule Store row an audit entry refers to
RuleOfEntry(entry) == CHOOSE row \in store : row.ID = entry.RuleID

\* C28: in every result CheckRisk returns, Flags and MatchedRules have the
\* same length, the i-th flag is "<CATEGORY>_<rule.Type>" of the rule the
\* i-th audit entry records, and every flag and every audit entry carries
\* the CheckID of the result.
C28_FlagsAlignedWithAudit ==
    \A p \in Callers :
        Returned(p) =>
            LET res == result[p]
            IN  /\ Len(res.Flags) = Len(res.MatchedRules)
                /\ \A i \in DOMAIN res.MatchedRules :
                      /\ \E row \in store : row.ID = res.MatchedRules[i].RuleID
                      /\ res.Flags[i].Flag =
                            RuleOfEntry(res.MatchedRules[i]).Category \o "_" \o
                            RuleOfEntry(res.MatchedRules[i]).Type
                      /\ res.Flags[i].CheckID = res.CheckID
                      /\ res.MatchedRules[i].CheckID = res.CheckID

\* a returned result with matches of all three categories
C28_Witness ==
    \E p \in Callers :
        /\ pc[p] = "done"
        /\ Len(result[p].Flags) = 3
        /\ result[p].CheckID = "check_1"
        /\ [i \in 1..3 |-> result[p].MatchedRules[i].RuleID] = <<"e3", "n3", "p1">>
        /\ [i \in 1..3 |-> result[p].Flags[i]] =
              <<[CheckID |-> "check_1", Flag |-> "EMAIL_DOMAIN_BLACKLIST"],
                [CheckID |-> "check_1", Flag |-> "NAME_LAST_NAME_BLACKLIST"],
                [CheckID |-> "check_1", Flag |-> "PHONE_PREFIX_BLACKLIST"]>>

\* a call is in progress or the cache lock is held: a CheckRisk has started
\* and not returned, InvalidateCache has been called and not returned, or a
\* GetCachedRules that asks for the read lock has to wait
Busy ==
    \/ \E p \in Callers : pc[p] \notin {"idle", "done", "error"}
    \/ adminPc = "invalidate"
    \/ cacheMutex # 0

\* C29: every CheckRisk, InvalidateCache and GetCachedRules call eventually
\* returns: whenever a call is in progress or the lock is held, a state
\* follows in which every call has returned and the lock is free, on the
\* refresh-failure path too.  (A call that never returned would leave the
\* engine busy for ever.)
C29_EveryCallReturns == Busy ~> ~Busy

\* a refresh failed, and a call that waited for the lock, the invalidation
\* and a GetCachedRules have all returned
C29_Witness ==
    \E p, q \in Callers :
        /\ pc[q] = "error"
        /\ pc[p] = "done"
        /\ cacheExpired[p]
        /\ Invalidation
        /\ snapshot.category = "PHONE"
        /\ snapshot.rules # <<>>
        /\ cacheMutex = 0

\* C30: once handleCriticalRisk has persisted IsActive = false, the stored
\* account is inactive in every later state, however Login and UpdateUser
\* calls for the user interleave with the deactivation.
C30_DeactivationSticks == criticalPc = "done" => ~userDb.IsActive

====
